---------------------------- MODULE Spec2Model ----------------------------
(***************************************************************************)
(* State-machine model of the SDVN trust-scoring chaincode                 *)
(* (sdvn-registration/lib: sdvnregistration.js, wormhole.js, blackhole.js, *)
(* poison.js, replay.js).                                                  *)
(*                                                                         *)
(* Conventions.                                                            *)
(*  - `state` is the ledger world state: a partial map from keys           *)
(*    <<"vinreg", vin>> / <<"vehicle", vin>> to the JSON value stored.     *)
(*  - One action = one transaction (one chaincode function invocation).   *)
(*    `call` records the invocation (function, caller identity, tx        *)
(*    timestamp, arguments) and `result` what it returned or threw,       *)
(*    together with the number of putState calls it made.                 *)
(*  - Times are milliseconds since the epoch; an ISO string that          *)
(*    Date.parse accepts is represented by its millisecond value, one     *)
(*    that it rejects by BadTs, an absent/empty argument by NoTs.         *)
(*  - Numbers are JS numbers restricted to integers plus NaN; JSON        *)
(*    serialisation turns NaN into null (Null), and Number(null) is 0.    *)
(*  - Coordinates are in units of 0.0001 degree.                          *)
(***************************************************************************)
EXTENDS Integers, Sequences, FiniteSets, TLC

VARIABLES state, call, result, inserted

vars == <<state, call, result, inserted>>

----------------------------------------------------------------------------
(* JavaScript values *)

NaN == -999999
Undefined == -999998
Null == -999997
NoTs == -999996
BadTs == -999995

\* Number(x) for a stored JSON value or an argument already in numeric form
Number(x) == IF x = Undefined \/ x = NaN THEN NaN ELSE IF x = Null THEN 0 ELSE x

isFinite(n) == n # NaN

\* JSON.stringify of a number: NaN is written as null
JsonNum(n) == IF n = NaN THEN Null ELSE n

\* Date.parse of a stored timestamp string
DateParse(ts) == IF ts = BadTs \/ ts = NoTs \/ ts = Undefined THEN NaN ELSE ts

Max(a, b) == IF a >= b THEN a ELSE b

Abs(a) == IF a >= 0 THEN a ELSE 0 - a

\* Math.round(num / den) for den > 0: floor(num/den + 1/2)
MathRound(num, den) == (2 * num + den) \div (2 * den)

RECURSIVE SumSeq(_)
SumSeq(s) == IF s = <<>> THEN 0 ELSE Head(s) + SumSeq(Tail(s))

\* Array.prototype.slice(-n)
SliceLast(s, n) == IF Len(s) <= n THEN s ELSE SubSeq(s, Len(s) - n + 1, Len(s))

SetField(r, f, v) == [k \in (DOMAIN r) \cup {f} |-> IF k = f THEN v ELSE r[k]]

GetField(r, f) == IF f \in DOMAIN r THEN r[f] ELSE Undefined

----------------------------------------------------------------------------
(* Program constants *)

InitialScore == 100
MaxLocations == 20
WINDOW_MS_10MIN == 600000
WINDOW_MS_60MIN == 3600000
WINDOW_MS_24H == 86400000
COORD_TOLERANCE_DEG == 5

----------------------------------------------------------------------------
(* Ledger stub *)

keyForVinAuthority(vin) == <<"vinreg", vin>>

keyForVehicle(vin) == <<"vehicle", vin>>

\* `data && data.length`
hasState(st, key) == key \in DOMAIN st

putState(st, key, val) ==
    [k \in (DOMAIN st) \cup {key} |-> IF k = key THEN val ELSE st[k]]

\* seconds * 1000 + floor(nanos / 1e6), as the ISO string of that instant
txNowIso(tx) == tx.seconds * 1000 + (tx.nanos \div 1000000)

----------------------------------------------------------------------------
(* RBAC helpers *)

\* String.prototype.toLowerCase on the role strings that occur
toLowerCase(s) ==
    CASE s = "trustedAuthority" -> "trustedauthority"
      [] s = "Controller" -> "controller"
      [] s = "VEHICLE" -> "vehicle"
      [] OTHER -> s

getClientRole(id) == toLowerCase(id.role)

requireRole_AllowAll(id, allowed) == TRUE

requireRole(id, allowed) ==
    getClientRole(id) \in {toLowerCase(r) : r \in allowed}

ensureVehicleOwnsVIN_AttrOptional(id, vin) ==
    getClientRole(id) = "vehicle" => (id.vin = "" \/ id.vin = vin)

\* TRUE when the check passes (no throw)
ensureVehicleOwnsVIN(id, vin) ==
    getClientRole(id) = "vehicle" => ~(id.vin = "" \/ id.vin # vin)

----------------------------------------------------------------------------
(* Transaction outcomes *)

\* A throw: the transaction aborts, nothing is committed
\* (`np` = putState calls made before the throw)
Throw(c, e, np) ==
    /\ call' = c
    /\ result' = [ok |-> FALSE, error |-> e, puts |-> np]
    /\ UNCHANGED <<state, inserted>>

\* A normal return after `np` putState calls leading to ledger `st`
Return(c, st, np, out) ==
    /\ call' = c
    /\ state' = st
    /\ result' = [ok |-> TRUE, error |-> "", puts |-> np, out |-> out]
    /\ UNCHANGED inserted


----------------------------------------------------------------------------
(* sdvnregistration.js: trusted-authority registry *)

AuthorityRecord(vin, tx) ==
    [vin |-> vin, createdAt |-> txNowIso(tx), issuer |-> "trustedAuthority"]

storeVIN_Overwrite(id, tx, vin) ==
    LET c == [op |-> "storeVIN", id |-> id, tx |-> tx, vin |-> vin]
        key == keyForVinAuthority(vin)
        record == AuthorityRecord(vin, tx)
    IN  IF ~requireRole(id, {"trustedAuthority"}) THEN Throw(c, "AccessDenied", 0)
        ELSE IF vin = "" THEN Throw(c, "VinRequired", 0)
        ELSE Return(c, putState(state, key, record), 1,
                    [already |-> hasState(state, key), record |-> record])

storeVIN(id, tx, vin) ==
    LET c == [op |-> "storeVIN", id |-> id, tx |-> tx, vin |-> vin]
        key == keyForVinAuthority(vin)
        record == AuthorityRecord(vin, tx)
    IN  IF ~requireRole(id, {"trustedAuthority"}) THEN Throw(c, "AccessDenied", 0)
        ELSE IF vin = "" THEN Throw(c, "VinRequired", 0)
        ELSE IF hasState(state, key)
             THEN Return(c, state, 0, [already |-> TRUE])
             ELSE Return(c, putState(state, key, record), 1,
                         [already |-> FALSE, record |-> record])

\* 2 ^ 53 = 9007199254740992, the first JS number n with n + 1 = n; it is
\* represented by the largest number of the model, and every number below
\* it is exact
TwoPow53 == 2000000000

\* vinNum++ on a JS number
JsInc(n) == IF n >= TwoPow53 THEN n ELSE n + 1

\* String(vinNum) for the VIN numbers that occur
VinString(n) ==
    IF n = TwoPow53 THEN "9007199254740992" ELSE <<"1", "2", "3", "4">>[n]

\* for (vinNum = s; vinNum <= e; vinNum++) { ... }
\* `done` is FALSE when vinNum++ no longer advances vinNum and the loop
\* condition stays true: the loop never exits
RECURSIVE RangeLoop(_, _, _, _, _, _)
RangeLoop(st, vinNum, e, tx, added, skipped) ==
    IF vinNum > e
    THEN [st |-> st, added |-> added, skipped |-> skipped, done |-> TRUE]
    ELSE IF JsInc(vinNum) = vinNum
    THEN [st |-> st, added |-> added, skipped |-> skipped, done |-> FALSE]
    ELSE LET vin == VinString(vinNum)
             key == keyForVinAuthority(vin)
         IN  IF hasState(st, key)
             THEN RangeLoop(st, JsInc(vinNum), e, tx, added, Append(skipped, vin))
             ELSE RangeLoop(putState(st, key, AuthorityRecord(vin, tx)),
                            JsInc(vinNum), e, tx, Append(added, vin), skipped)

storeVINRange(id, tx, start, end) ==
    LET c == [op |-> "storeVINRange", id |-> id, tx |-> tx,
              start |-> start, end |-> end]
        s == Number(start)
        e == Number(end)
        r == RangeLoop(state, s, e, tx, <<>>, <<>>)
    IN  IF ~requireRole(id, {"trustedAuthority"}) THEN Throw(c, "AccessDenied", 0)
        ELSE IF ~isFinite(s) \/ ~isFinite(e) \/ s <= 0 \/ e <= 0
             THEN Throw(c, "InvalidRange", 0)
        ELSE IF s > e THEN Throw(c, "InvalidRange", 0)
        \* the invocation does not return; the peer abandons the transaction
        ELSE IF ~r.done THEN Throw(c, "NoReturn", 1)
        ELSE Return(c, r.st, Len(r.added),
                    [totalRequested |-> e - s + 1,
                     addedCount |-> Len(r.added),
                     skippedCount |-> Len(r.skipped),
                     added |-> r.added, skipped |-> r.skipped])

----------------------------------------------------------------------------
(* sdvnregistration.js: vehicle records *)

NewVehicle_LowScore(vin, publicKey, registrationStatus, tx) ==
    [VIN |-> vin,
     publicKey |-> publicKey,
     registrationStatus |->
        IF registrationStatus = "" THEN "registered" ELSE registrationStatus,
     trustedScoreSybil |-> InitialScore,
     trustedScoreWromehole |-> InitialScore,
     trustScoreBlackhole |-> InitialScore,
     trustScorePoison |-> InitialScore,
     trustScoreReplay |-> 0,
     neighborArray |-> <<>>,
     neighborArrayBlackholeVotes |-> <<>>,
     neighborArrayRoutingData |-> <<>>,
     locations |-> <<>>,
     createdAt |-> txNowIso(tx)]

NewVehicle(vin, publicKey, registrationStatus, tx) ==
    [VIN |-> vin,
     publicKey |-> publicKey,
     registrationStatus |->
        IF registrationStatus = "" THEN "registered" ELSE registrationStatus,
     trustedScoreSybil |-> InitialScore,
     trustedScoreWromehole |-> InitialScore,
     trustScoreBlackhole |-> InitialScore,
     trustScorePoison |-> InitialScore,
     trustScoreReplay |-> InitialScore,
     neighborArray |-> <<>>,
     neighborArrayBlackholeVotes |-> <<>>,
     neighborArrayRoutingData |-> <<>>,
     locations |-> <<>>,
     createdAt |-> txNowIso(tx)]

AuthorityPresent_Always(st, vin) == TRUE

\* `auth && auth.length`
AuthorityPresent(st, vin) == hasState(st, keyForVinAuthority(vin))

AlreadyRegistered_Never(st, vin) == FALSE

\* `existing && existing.length`
AlreadyRegistered(st, vin) == hasState(st, keyForVehicle(vin))

registerVehicle_WriteBeforeCheck(id, tx, vin, publicKey, registrationStatus) ==
    LET c == [op |-> "registerVehicle", id |-> id, tx |-> tx, vin |-> vin,
              publicKey |-> publicKey, registrationStatus |-> registrationStatus]
        vehKey == keyForVehicle(vin)
        vehicle == NewVehicle(vin, publicKey, registrationStatus, tx)
    IN  IF ~requireRole(id, {"controller"}) THEN Throw(c, "AccessDenied", 0)
        ELSE IF vin = "" \/ publicKey = "" THEN Throw(c, "VinRequired", 0)
        ELSE IF ~AuthorityPresent(state, vin) THEN Throw(c, "AuthorityNotFound", 0)
        ELSE IF AlreadyRegistered(state, vin) THEN Throw(c, "AlreadyRegistered", 1)
        ELSE Return(c, putState(state, vehKey, vehicle), 1, vehicle)

registerVehicle(id, tx, vin, publicKey, registrationStatus) ==
    LET c == [op |-> "registerVehicle", id |-> id, tx |-> tx, vin |-> vin,
              publicKey |-> publicKey, registrationStatus |-> registrationStatus]
        vehKey == keyForVehicle(vin)
        vehicle == NewVehicle(vin, publicKey, registrationStatus, tx)
    IN  IF ~requireRole(id, {"controller"}) THEN Throw(c, "AccessDenied", 0)
        ELSE IF vin = "" \/ publicKey = "" THEN Throw(c, "VinRequired", 0)
        ELSE IF ~AuthorityPresent(state, vin) THEN Throw(c, "AuthorityNotFound", 0)
        ELSE IF AlreadyRegistered(state, vin) THEN Throw(c, "AlreadyRegistered", 0)
        ELSE Return(c, putState(state, vehKey, vehicle), 1, vehicle)

\* the five sub-scores read with Number(...)
ScoresOf(vehicle) ==
    <<Number(vehicle.trustedScoreSybil),
      Number(vehicle.trustedScoreWromehole),
      Number(vehicle.trustScoreBlackhole),
      Number(vehicle.trustScorePoison),
      Number(vehicle.trustScoreReplay)>>

OverallOf_Persisted(vehicle) == Number(GetField(vehicle, "overallTrustScore"))

\* valid.reduce(sum) / valid.length, then Math.round
OverallOf(vehicle) ==
    LET valid == SelectSeq(ScoresOf(vehicle), isFinite)
    IN  IF Len(valid) > 0 THEN MathRound(SumSeq(valid), Len(valid)) ELSE 0

getVehicle(id, tx, vin) ==
    LET c == [op |-> "getVehicle", id |-> id, tx |-> tx, vin |-> vin]
        vehKey == keyForVehicle(vin)
        authorized ==
            IF getClientRole(id) = "vehicle"
            THEN ensureVehicleOwnsVIN(id, vin)
            ELSE requireRole(id, {"controller", "trustedAuthority"})
    IN  IF ~authorized
        THEN Throw(c, IF getClientRole(id) = "vehicle" THEN "NotOwner"
                      ELSE "AccessDenied", 0)
        ELSE IF ~hasState(state, vehKey) THEN Throw(c, "NotFound", 0)
        ELSE Return(c, state, 0,
                    SetField(state[vehKey], "overallTrustScore",
                             OverallOf(state[vehKey])))

resetTrustScores_ClearFlowLog(id, tx, vin) ==
    LET c == [op |-> "resetTrustScores", id |-> id, tx |-> tx, vin |-> vin]
        vehKey == keyForVehicle(vin)
        vehicle == [SetField(state[vehKey], "flowIdReplay", <<>>) EXCEPT
                        !.trustedScoreSybil = 100,
                        !.trustedScoreWromehole = 100,
                        !.trustScoreBlackhole = 100,
                        !.trustScorePoison = 100,
                        !.trustScoreReplay = 100,
                        !.neighborArray = <<>>,
                        !.neighborArrayBlackholeVotes = <<>>,
                        !.neighborArrayRoutingData = <<>>]
    IN  IF ~requireRole(id, {"controller", "trustedAuthority"})
        THEN Throw(c, "AccessDenied", 0)
        ELSE IF vin = "" THEN Throw(c, "VinRequired", 0)
        ELSE IF ~hasState(state, vehKey) THEN Throw(c, "NotFound", 0)
        ELSE Return(c, putState(state, vehKey, vehicle), 1,
                    [VIN |-> vin,
                     trustedScoreSybil |-> 100,
                     trustedScoreWromehole |-> 100,
                     trustScoreBlackhole |-> 100,
                     trustScorePoison |-> 100,
                     trustScoreReplay |-> 100,
                     overallTrustScore |-> 100])

resetTrustScores_ClearLocations(id, tx, vin) ==
    LET c == [op |-> "resetTrustScores", id |-> id, tx |-> tx, vin |-> vin]
        vehKey == keyForVehicle(vin)
        vehicle == [state[vehKey] EXCEPT
                        !.trustedScoreSybil = 100,
                        !.trustedScoreWromehole = 100,
                        !.trustScoreBlackhole = 100,
                        !.trustScorePoison = 100,
                        !.trustScoreReplay = 100,
                        !.neighborArray = <<>>,
                        !.neighborArrayBlackholeVotes = <<>>,
                        !.neighborArrayRoutingData = <<>>,
                        !.locations = <<>>]
    IN  IF ~requireRole(id, {"controller", "trustedAuthority"})
        THEN Throw(c, "AccessDenied", 0)
        ELSE IF vin = "" THEN Throw(c, "VinRequired", 0)
        ELSE IF ~hasState(state, vehKey) THEN Throw(c, "NotFound", 0)
        ELSE Return(c, putState(state, vehKey, vehicle), 1,
                    [VIN |-> vin,
                     trustedScoreSybil |-> 100,
                     trustedScoreWromehole |-> 100,
                     trustScoreBlackhole |-> 100,
                     trustScorePoison |-> 100,
                     trustScoreReplay |-> 100,
                     overallTrustScore |-> 100])

resetTrustScores(id, tx, vin) ==
    LET c == [op |-> "resetTrustScores", id |-> id, tx |-> tx, vin |-> vin]
        vehKey == keyForVehicle(vin)
        vehicle == [state[vehKey] EXCEPT
                        !.trustedScoreSybil = 100,
                        !.trustedScoreWromehole = 100,
                        !.trustScoreBlackhole = 100,
                        !.trustScorePoison = 100,
                        !.trustScoreReplay = 100,
                        !.neighborArray = <<>>,
                        !.neighborArrayBlackholeVotes = <<>>,
                        !.neighborArrayRoutingData = <<>>]
    IN  IF ~requireRole(id, {"controller", "trustedAuthority"})
        THEN Throw(c, "AccessDenied", 0)
        ELSE IF vin = "" THEN Throw(c, "VinRequired", 0)
        ELSE IF ~hasState(state, vehKey) THEN Throw(c, "NotFound", 0)
        ELSE Return(c, putState(state, vehKey, vehicle), 1,
                    [VIN |-> vin,
                     trustedScoreSybil |-> vehicle.trustedScoreSybil,
                     trustedScoreWromehole |-> vehicle.trustedScoreWromehole,
                     trustScoreBlackhole |-> vehicle.trustScoreBlackhole,
                     trustScorePoison |-> vehicle.trustScorePoison,
                     trustScoreReplay |-> vehicle.trustScoreReplay,
                     overallTrustScore |->
                        MathRound(SumSeq(<<vehicle.trustedScoreSybil,
                                           vehicle.trustedScoreWromehole,
                                           vehicle.trustScoreBlackhole,
                                           vehicle.trustScorePoison,
                                           vehicle.trustScoreReplay>>), 5)])

TrimLocations_KeepFirst(locs) ==
    IF Len(locs) > MaxLocations THEN SubSeq(locs, 1, MaxLocations) ELSE locs

\* if (locations.length > 20) locations = locations.slice(-20)
TrimLocations(locs) ==
    IF Len(locs) > MaxLocations THEN SliceLast(locs, MaxLocations) ELSE locs

storeLocation(id, tx, vin, latitude, longitude, timestamp) ==
    LET c == [op |-> "storeLocation", id |-> id, tx |-> tx, vin |-> vin,
              latitude |-> latitude, longitude |-> longitude,
              timestamp |-> timestamp]
        vehKey == keyForVehicle(vin)
        authorized ==
            IF getClientRole(id) = "vehicle"
            THEN ensureVehicleOwnsVIN(id, vin)
            ELSE requireRole(id, {"controller"})
        entry == [latitude |-> JsonNum(Number(latitude)),
                  longitude |-> JsonNum(Number(longitude)),
                  timestamp |-> IF timestamp = NoTs THEN txNowIso(tx)
                                ELSE timestamp]
        vehicle == [state[vehKey] EXCEPT
                        !.locations = TrimLocations(Append(@, entry))]
    IN  IF ~authorized
        THEN Throw(c, IF getClientRole(id) = "vehicle" THEN "NotOwner"
                      ELSE "AccessDenied", 0)
        ELSE IF ~hasState(state, vehKey) THEN Throw(c, "NotFound", 0)
        ELSE /\ call' = c
             /\ state' = putState(state, vehKey, vehicle)
             /\ result' = [ok |-> TRUE, error |-> "", puts |-> 1,
                           out |-> [vin |-> vin,
                                    count |-> Len(vehicle.locations),
                                    last |-> entry]]
             /\ inserted' = [inserted EXCEPT ![vin] = Append(@, entry)]

\* the VIN strings that occur, in the lexicographic order of their keys
KeyOrder == <<"1", "10", "2", "3", "4", "9007199254740992">>

listVINStatuses_AllRegistered(id, tx) ==
    LET c == [op |-> "listVINStatuses", id |-> id, tx |-> tx]
        present == SelectSeq(KeyOrder,
                             LAMBDA v : hasState(state, keyForVinAuthority(v)))
        results == [i \in 1..Len(present) |->
                       [vin |-> state[keyForVinAuthority(present[i])].vin,
                        storedAt |-> state[keyForVinAuthority(present[i])].createdAt,
                        registered |-> TRUE]]
    IN  IF ~requireRole(id, {"controller", "trustedAuthority"})
        THEN Throw(c, "AccessDenied", 0)
        ELSE Return(c, state, 0, results)

listVINStatuses(id, tx) ==
    LET c == [op |-> "listVINStatuses", id |-> id, tx |-> tx]
        present == SelectSeq(KeyOrder,
                             LAMBDA v : hasState(state, keyForVinAuthority(v)))
        results == [i \in 1..Len(present) |->
                       [vin |-> state[keyForVinAuthority(present[i])].vin,
                        storedAt |-> state[keyForVinAuthority(present[i])].createdAt,
                        registered |-> hasState(state, keyForVehicle(present[i]))]]
    IN  IF ~requireRole(id, {"controller", "trustedAuthority"})
        THEN Throw(c, "AccessDenied", 0)
        ELSE Return(c, state, 0, results)

----------------------------------------------------------------------------
(* Shared by the vote logs *)

\* Number(vote) === 1 ? 1 : 0
NormalizeVote_NonZero(vote) == IF Number(vote) \notin {0, NaN} THEN 1 ELSE 0

NormalizeVote(vote) == IF Number(vote) = 1 THEN 1 ELSE 0

\* timestamp && String(timestamp).trim() ? String(timestamp) : txNowIso(ctx)
EntryTimestamp(timestamp, tx) == IF timestamp = NoTs THEN txNowIso(tx) ELSE timestamp

\* variant: entries dated after the end of the window are kept
InWindow_OpenEnd(votes, from, to) ==
    SelectSeq(votes, LAMBDA e : /\ isFinite(DateParse(e.timestamp))
                                /\ DateParse(e.timestamp) >= from)

InWindow_OpenStart(votes, from, to) ==
    SelectSeq(votes, LAMBDA e : /\ isFinite(DateParse(e.timestamp))
                                /\ DateParse(e.timestamp) > from
                                /\ DateParse(e.timestamp) <= to)

\* entries e with Number.isFinite(t) && t >= from && t <= to, t = Date.parse(e.timestamp)
InWindow(votes, from, to) ==
    SelectSeq(votes, LAMBDA e : /\ isFinite(DateParse(e.timestamp))
                                /\ DateParse(e.timestamp) >= from
                                /\ DateParse(e.timestamp) <= to)

Ones(votes) == SelectSeq(votes, LAMBDA e : Number(e.vote) = 1)

Zeros(votes) == SelectSeq(votes, LAMBDA e : Number(e.vote) # 1)

ClampScore_NoFloor(before, delta) == before + delta

\* Math.max(0, before + delta)
ClampScore(before, delta) == Max(0, before + delta)

----------------------------------------------------------------------------
(* wormhole.js *)

withinTolerance_Strict(a, b) ==
    /\ isFinite(Number(a))
    /\ isFinite(Number(b))
    /\ Abs(Number(a) - Number(b)) < COORD_TOLERANCE_DEG

withinTolerance(a, b) ==
    /\ isFinite(Number(a))
    /\ isFinite(Number(b))
    /\ Abs(Number(a) - Number(b)) <= COORD_TOLERANCE_DEG

storeNeighborVote_LocalClock(id, tx, vin, neighborId, vote, longitude, latitude, timestamp) ==
  \E skew \in {0, 1} :
    LET c == [op |-> "storeNeighborVote", id |-> id, tx |-> tx, vin |-> vin,
              neighborId |-> neighborId, vote |-> vote,
              longitude |-> longitude, latitude |-> latitude,
              timestamp |-> timestamp]
        vehKey == keyForVehicle(vin)
        entry == [neighborId |-> neighborId,
                  vote |-> NormalizeVote(vote),
                  location |-> [longitude |-> JsonNum(Number(longitude)),
                                latitude |-> JsonNum(Number(latitude))],
                  timestamp |-> EntryTimestamp(timestamp,
                                [tx EXCEPT !.seconds = @ + skew])]
        vehicle == [state[vehKey] EXCEPT !.neighborArray = Append(@, entry)]
    IN  IF ~requireRole(id, {"vehicle"}) THEN Throw(c, "AccessDenied", 0)
        ELSE IF vin = "" \/ neighborId = "" \/ vote \in {Undefined, Null}
             THEN Throw(c, "ArgsRequired", 0)
        ELSE IF ~hasState(state, vehKey) THEN Throw(c, "NotFound", 0)
        ELSE Return(c, putState(state, vehKey, vehicle), 1,
                    [vin |-> vin, lastVote |-> entry,
                     count |-> Len(vehicle.neighborArray)])

storeNeighborVote(id, tx, vin, neighborId, vote, longitude, latitude, timestamp) ==
    LET c == [op |-> "storeNeighborVote", id |-> id, tx |-> tx, vin |-> vin,
              neighborId |-> neighborId, vote |-> vote,
              longitude |-> longitude, latitude |-> latitude,
              timestamp |-> timestamp]
        vehKey == keyForVehicle(vin)
        entry == [neighborId |-> neighborId,
                  vote |-> NormalizeVote(vote),
                  location |-> [longitude |-> JsonNum(Number(longitude)),
                                latitude |-> JsonNum(Number(latitude))],
                  timestamp |-> EntryTimestamp(timestamp, tx)]
        vehicle == [state[vehKey] EXCEPT !.neighborArray = Append(@, entry)]
    IN  IF ~requireRole(id, {"vehicle"}) THEN Throw(c, "AccessDenied", 0)
        ELSE IF vin = "" \/ neighborId = "" \/ vote \in {Undefined, Null}
             THEN Throw(c, "ArgsRequired", 0)
        ELSE IF ~hasState(state, vehKey) THEN Throw(c, "NotFound", 0)
        ELSE Return(c, putState(state, vehKey, vehicle), 1,
                    [vin |-> vin, lastVote |-> entry,
                     count |-> Len(vehicle.neighborArray)])

V1Decision_EitherAxis(windowVotes, reported) ==
    LET ones == Ones(windowVotes)
        zeros == Zeros(windowVotes)
        loc == IF "location" \in DOMAIN ones[1] THEN ones[1].location ELSE << >>
        match == \/ withinTolerance(GetField(loc, "longitude"), reported.longitude)
                 \/ withinTolerance(GetField(loc, "latitude"), reported.latitude)
    IN  IF Len(ones) > Len(zeros)
        THEN IF ~match THEN [decision |-> "penalized-mismatch", delta |-> -1]
             ELSE [decision |-> "no-change", delta |-> 0]
        ELSE IF Len(zeros) > Len(ones)
             THEN [decision |-> "penalized-majority0", delta |-> -2]
             ELSE [decision |-> "no-majority", delta |-> 0]

V1Decision_ZeroPenaltyOne(windowVotes, reported) ==
    LET ones == Ones(windowVotes)
        zeros == Zeros(windowVotes)
        loc == IF "location" \in DOMAIN ones[1] THEN ones[1].location ELSE << >>
        match == /\ withinTolerance(GetField(loc, "longitude"), reported.longitude)
                 /\ withinTolerance(GetField(loc, "latitude"), reported.latitude)
    IN  IF Len(ones) > Len(zeros)
        THEN IF ~match THEN [decision |-> "penalized-mismatch", delta |-> -1]
             ELSE [decision |-> "no-change", delta |-> 0]
        ELSE IF Len(zeros) > Len(ones)
             THEN [decision |-> "penalized-majority0", delta |-> -1]
             ELSE [decision |-> "no-majority", delta |-> 0]

\* variant: the location compared is that of the first 1-vote that has one
V1Decision_FirstLocated(windowVotes, reported) ==
    LET ones == Ones(windowVotes)
        zeros == Zeros(windowVotes)
        located == SelectSeq(ones, LAMBDA e : "location" \in DOMAIN e)
        loc == IF Len(located) > 0 THEN located[1].location ELSE << >>
        match == /\ withinTolerance(GetField(loc, "longitude"), reported.longitude)
                 /\ withinTolerance(GetField(loc, "latitude"), reported.latitude)
    IN  IF Len(ones) > Len(zeros)
        THEN IF ~match THEN [decision |-> "penalized-mismatch", delta |-> -1]
             ELSE [decision |-> "no-change", delta |-> 0]
        ELSE IF Len(zeros) > Len(ones)
             THEN [decision |-> "penalized-majority0", delta |-> -2]
             ELSE [decision |-> "no-majority", delta |-> 0]

\* the decision and delta of V1 cross-validation over the in-window votes
V1Decision(windowVotes, reported) ==
    LET ones == Ones(windowVotes)
        zeros == Zeros(windowVotes)
        loc == IF "location" \in DOMAIN ones[1] THEN ones[1].location ELSE << >>
        match == /\ withinTolerance(GetField(loc, "longitude"), reported.longitude)
                 /\ withinTolerance(GetField(loc, "latitude"), reported.latitude)
    IN  IF Len(ones) > Len(zeros)
        THEN IF ~match THEN [decision |-> "penalized-mismatch", delta |-> -1]
             ELSE [decision |-> "no-change", delta |-> 0]
        ELSE IF Len(zeros) > Len(ones)
             THEN [decision |-> "penalized-majority0", delta |-> -2]
             ELSE [decision |-> "no-majority", delta |-> 0]

crossValidation_WriteOnChange(id, tx, vin, longitudeV, latitudeV, timestampV) ==
    LET c == [op |-> "crossValidation", id |-> id, tx |-> tx, vin |-> vin,
              longitudeV |-> longitudeV, latitudeV |-> latitudeV,
              timestampV |-> timestampV]
        vehKey == keyForVehicle(vin)
        vehicle == state[vehKey]
        reported == [longitude |-> Number(longitudeV),
                     latitude |-> Number(latitudeV)]
        tsV == DateParse(EntryTimestamp(timestampV, tx))
        windowStart == tsV - WINDOW_MS_10MIN
        windowVotes == InWindow(vehicle.neighborArray, windowStart, tsV)
        d == V1Decision(windowVotes, reported)
        before == Number(vehicle.trustedScoreWromehole)
        after == ClampScore(before, d.delta)
        out == [vin |-> vin, decision |-> d.decision, before |-> before,
                after |-> after, delta |-> d.delta,
                considered |-> Len(windowVotes)]
    IN  IF ~requireRole(id, {"vehicle"}) THEN Throw(c, "AccessDenied", 0)
        ELSE IF ~ensureVehicleOwnsVIN(id, vin) THEN Throw(c, "NotOwner", 0)
        ELSE IF vin = "" THEN Throw(c, "VinRequired", 0)
        ELSE IF ~hasState(state, vehKey) THEN Throw(c, "NotFound", 0)
        ELSE IF ~isFinite(tsV) THEN Throw(c, "InvalidTimestamp", 0)
        ELSE IF Len(windowVotes) = 0
             THEN Return(c, state, 0,
                         [vin |-> vin, decision |-> "no-votes",
                          before |-> vehicle.trustedScoreWromehole,
                          after |-> vehicle.trustedScoreWromehole,
                          delta |-> 0, considered |-> 0])
        ELSE IF after # before
             THEN Return(c, putState(state, vehKey,
                              [vehicle EXCEPT !.trustedScoreWromehole = after]),
                         1, out)
             ELSE Return(c, state, 0, out)

crossValidation(id, tx, vin, longitudeV, latitudeV, timestampV) ==
    LET c == [op |-> "crossValidation", id |-> id, tx |-> tx, vin |-> vin,
              longitudeV |-> longitudeV, latitudeV |-> latitudeV,
              timestampV |-> timestampV]
        vehKey == keyForVehicle(vin)
        vehicle == state[vehKey]
        reported == [longitude |-> Number(longitudeV),
                     latitude |-> Number(latitudeV)]
        tsV == DateParse(EntryTimestamp(timestampV, tx))
        windowStart == tsV - WINDOW_MS_10MIN
        windowVotes == InWindow(vehicle.neighborArray, windowStart, tsV)
        d == V1Decision(windowVotes, reported)
        before == Number(vehicle.trustedScoreWromehole)
        after == ClampScore(before, d.delta)
        out == [vin |-> vin, decision |-> d.decision, before |-> before,
                after |-> after, delta |-> d.delta,
                considered |-> Len(windowVotes)]
    IN  IF ~requireRole(id, {"vehicle"}) THEN Throw(c, "AccessDenied", 0)
        ELSE IF ~ensureVehicleOwnsVIN(id, vin) THEN Throw(c, "NotOwner", 0)
        ELSE IF vin = "" THEN Throw(c, "VinRequired", 0)
        ELSE IF ~hasState(state, vehKey) THEN Throw(c, "NotFound", 0)
        ELSE IF ~isFinite(tsV) THEN Throw(c, "InvalidTimestamp", 0)
        ELSE IF Len(windowVotes) = 0
             THEN Return(c, state, 0,
                         [vin |-> vin, decision |-> "no-votes",
                          before |-> vehicle.trustedScoreWromehole,
                          after |-> vehicle.trustedScoreWromehole,
                          delta |-> 0, considered |-> 0])
        ELSE IF d.delta # 0
             THEN Return(c, putState(state, vehKey,
                              [vehicle EXCEPT !.trustedScoreWromehole = after]),
                         1, out)
             ELSE Return(c, state, 0, out)

storeNeighborVoteV3(id, tx, vin, vote, timestamp) ==
    LET c == [op |-> "storeNeighborVoteV3", id |-> id, tx |-> tx, vin |-> vin,
              vote |-> vote, timestamp |-> timestamp]
        vehKey == keyForVehicle(vin)
        entry == [vote |-> NormalizeVote(vote),
                  timestamp |-> EntryTimestamp(timestamp, tx)]
        vehicle == [state[vehKey] EXCEPT !.neighborArray = Append(@, entry)]
    IN  IF ~requireRole(id, {"controller"}) THEN Throw(c, "AccessDenied", 0)
        ELSE IF vin = "" \/ vote \in {Undefined, Null} THEN Throw(c, "ArgsRequired", 0)
        ELSE IF ~hasState(state, vehKey) THEN Throw(c, "NotFound", 0)
        ELSE Return(c, putState(state, vehKey, vehicle), 1,
                    [vin |-> vin, lastVote |-> entry,
                     count |-> Len(vehicle.neighborArray)])

V3Decision_TiePenalised(windowVotes) ==
    LET ones == Ones(windowVotes)
        zeros == Zeros(windowVotes)
    IN  IF Len(windowVotes) > 0
        THEN IF Len(zeros) >= Len(ones)
             THEN [decision |-> "penalized-majority0", delta |-> -1]
             ELSE [decision |-> "no-penalty-majority1", delta |-> 0]
        ELSE [decision |-> "no-votes", delta |-> 0]

V3Decision(windowVotes) ==
    LET ones == Ones(windowVotes)
        zeros == Zeros(windowVotes)
    IN  IF Len(windowVotes) > 0
        THEN IF Len(zeros) > Len(ones)
             THEN [decision |-> "penalized-majority0", delta |-> -1]
             ELSE IF Len(ones) > Len(zeros)
                  THEN [decision |-> "no-penalty-majority1", delta |-> 0]
                  ELSE [decision |-> "no-majority", delta |-> 0]
        ELSE [decision |-> "no-votes", delta |-> 0]

crossValidationV3(id, tx, vin) ==
    LET c == [op |-> "crossValidationV3", id |-> id, tx |-> tx, vin |-> vin]
        vehKey == keyForVehicle(vin)
        vehicle == state[vehKey]
        tsNow == DateParse(txNowIso(tx))
        windowStart == tsNow - WINDOW_MS_60MIN
        oneDayAgo == tsNow - WINDOW_MS_24H
        votes == vehicle.neighborArray
        windowVotes == InWindow(votes, windowStart, tsNow)
        d == V3Decision(windowVotes)
        before == Number(vehicle.trustedScoreWromehole)
        after == ClampScore(before, d.delta)
        scored == IF d.delta # 0
                  THEN [vehicle EXCEPT !.trustedScoreWromehole = after]
                  ELSE vehicle
        purged == SelectSeq(votes, LAMBDA e : /\ isFinite(DateParse(e.timestamp))
                                              /\ DateParse(e.timestamp) > oneDayAgo)
        final == [SetField(scored, "overallTrustScore", OverallOf(scored))
                     EXCEPT !.neighborArray = purged]
    IN  IF ~requireRole(id, {"controller"}) THEN Throw(c, "AccessDenied", 0)
        ELSE IF vin = "" THEN Throw(c, "VinRequired", 0)
        ELSE IF ~hasState(state, vehKey) THEN Throw(c, "NotFound", 0)
        ELSE IF ~isFinite(tsNow) THEN Throw(c, "InvalidTimestamp", 0)
        ELSE Return(c, putState(state, vehKey, final), 1,
                    [vin |-> vin, decision |-> d.decision, before |-> before,
                     after |-> final.trustedScoreWromehole, delta |-> d.delta,
                     considered |-> Len(windowVotes),
                     overallTrustScore |-> final.overallTrustScore,
                     purgedVotes |-> Len(votes) - Len(purged)])

----------------------------------------------------------------------------
(* blackhole.js *)

toNumberOrZero(v) == IF isFinite(Number(v)) THEN Number(v) ELSE 0

computeOverallTrust_Floor(vehicle) ==
    LET scores == <<toNumberOrZero(vehicle.trustedScoreSybil),
                    toNumberOrZero(vehicle.trustedScoreWromehole),
                    toNumberOrZero(vehicle.trustScoreBlackhole),
                    toNumberOrZero(vehicle.trustScorePoison),
                    toNumberOrZero(vehicle.trustScoreReplay)>>
        valid == SelectSeq(scores, isFinite)
    IN  IF Len(valid) > 0 THEN SumSeq(valid) \div Len(valid) ELSE 0

\* computeOverallTrust (blackhole.js, poison.js)
computeOverallTrust(vehicle) ==
    LET scores == <<toNumberOrZero(vehicle.trustedScoreSybil),
                    toNumberOrZero(vehicle.trustedScoreWromehole),
                    toNumberOrZero(vehicle.trustScoreBlackhole),
                    toNumberOrZero(vehicle.trustScorePoison),
                    toNumberOrZero(vehicle.trustScoreReplay)>>
        valid == SelectSeq(scores, isFinite)
    IN  IF Len(valid) > 0 THEN MathRound(SumSeq(valid), Len(valid)) ELSE 0

ReduceAmount_Signed(arg) ==
    IF isFinite(Number(arg)) /\ Number(arg) # 0 THEN Number(arg) ELSE 1

\* Math.max(0, Number(arg) || 1)
ReduceAmount(arg) ==
    Max(0, IF isFinite(Number(arg)) /\ Number(arg) # 0 THEN Number(arg) ELSE 1)

reduceTrustScoreBlackhole(id, tx, vin, delta) ==
    LET c == [op |-> "reduceBlackholeScore", id |-> id, tx |-> tx, vin |-> vin,
              delta |-> delta]
        vehKey == keyForVehicle(vin)
        reduceBy == ReduceAmount(delta)
        before == toNumberOrZero(state[vehKey].trustScoreBlackhole)
        after == ClampScore(before, 0 - reduceBy)
        scored == [state[vehKey] EXCEPT !.trustScoreBlackhole = after]
        overallBefore == toNumberOrZero(GetField(state[vehKey], "overallTrustScore"))
        overallAfter == computeOverallTrust(scored)
        vehicle == SetField(scored, "overallTrustScore", overallAfter)
    IN  IF ~requireRole(id, {"controller"}) THEN Throw(c, "AccessDenied", 0)
        ELSE IF vin = "" THEN Throw(c, "VinRequired", 0)
        ELSE IF ~hasState(state, vehKey) THEN Throw(c, "NotFound", 0)
        ELSE Return(c, putState(state, vehKey, vehicle), 1,
                    [vin |-> vin, action |-> "reduced-blackhole",
                     before |-> before, after |-> after,
                     delta |-> 0 - reduceBy,
                     overallBefore |-> overallBefore,
                     overallAfter |-> overallAfter])

storeNeighborVoteBlackhole(id, tx, vin, neighborId, vote, timestamp) ==
    LET c == [op |-> "storeBlackholeNeighborVote", id |-> id, tx |-> tx,
              vin |-> vin, neighborId |-> neighborId, vote |-> vote,
              timestamp |-> timestamp]
        vehKey == keyForVehicle(vin)
        entry == [neighborId |-> neighborId,
                  vote |-> NormalizeVote(vote),
                  timestamp |-> EntryTimestamp(timestamp, tx)]
        vehicle == [state[vehKey] EXCEPT
                        !.neighborArrayBlackholeVotes = Append(@, entry)]
    IN  IF ~requireRole(id, {"vehicle"}) THEN Throw(c, "AccessDenied", 0)
        ELSE IF vin = "" \/ neighborId = "" \/ vote \in {Undefined, Null}
             THEN Throw(c, "ArgsRequired", 0)
        ELSE IF ~hasState(state, vehKey) THEN Throw(c, "NotFound", 0)
        ELSE Return(c, putState(state, vehKey, vehicle), 1,
                    [vin |-> vin, lastVote |-> entry,
                     count |-> Len(vehicle.neighborArrayBlackholeVotes)])

\* variant: a penalising evaluation clears the votes it has counted
evaluateBlackholeVotes_ConsumeVotes(id, tx, vin, reduceBy) ==
    LET c == [op |-> "evaluateBlackholeVotes", id |-> id, tx |-> tx, vin |-> vin,
              reduceBy |-> reduceBy]
        vehKey == keyForVehicle(vin)
        nowMs == DateParse(txNowIso(tx))
        windowStart == nowMs - WINDOW_MS_10MIN
        windowVotes == InWindow(state[vehKey].neighborArrayBlackholeVotes,
                                windowStart, nowMs)
        ones == Len(Ones(windowVotes))
        zeros == Len(Zeros(windowVotes))
        before == toNumberOrZero(state[vehKey].trustScoreBlackhole)
        dec == ReduceAmount(reduceBy)
        after == ClampScore(before, 0 - dec)
        scored == [state[vehKey] EXCEPT !.trustScoreBlackhole = after,
                                         !.neighborArrayBlackholeVotes = <<>>]
        overallAfter == computeOverallTrust(scored)
        vehicle == SetField(scored, "overallTrustScore", overallAfter)
    IN  IF ~requireRole(id, {"controller"}) THEN Throw(c, "AccessDenied", 0)
        ELSE IF vin = "" THEN Throw(c, "VinRequired", 0)
        ELSE IF ~hasState(state, vehKey) THEN Throw(c, "NotFound", 0)
        ELSE IF Len(windowVotes) = 0
             THEN Return(c, state, 0,
                         [vin |-> vin, decision |-> "no-votes", ones |-> 0,
                          zeros |-> 0, before |-> before, after |-> before,
                          delta |-> 0])
        ELSE IF zeros > ones
             THEN Return(c, putState(state, vehKey, vehicle), 1,
                         [vin |-> vin, decision |-> "penalized-majority0",
                          ones |-> ones, zeros |-> zeros, before |-> before,
                          after |-> after, delta |-> 0 - dec,
                          overallAfter |-> overallAfter])
             ELSE Return(c, state, 0,
                         [vin |-> vin,
                          decision |-> IF ones > zeros THEN "majority1-no-penalty"
                                       ELSE "no-majority",
                          ones |-> ones, zeros |-> zeros, before |-> before,
                          after |-> before, delta |-> 0])

evaluateBlackholeVotes(id, tx, vin, reduceBy) ==
    LET c == [op |-> "evaluateBlackholeVotes", id |-> id, tx |-> tx, vin |-> vin,
              reduceBy |-> reduceBy]
        vehKey == keyForVehicle(vin)
        nowMs == DateParse(txNowIso(tx))
        windowStart == nowMs - WINDOW_MS_10MIN
        windowVotes == InWindow(state[vehKey].neighborArrayBlackholeVotes,
                                windowStart, nowMs)
        ones == Len(Ones(windowVotes))
        zeros == Len(Zeros(windowVotes))
        before == toNumberOrZero(state[vehKey].trustScoreBlackhole)
        dec == ReduceAmount(reduceBy)
        after == ClampScore(before, 0 - dec)
        scored == [state[vehKey] EXCEPT !.trustScoreBlackhole = after]
        overallAfter == computeOverallTrust(scored)
        vehicle == SetField(scored, "overallTrustScore", overallAfter)
    IN  IF ~requireRole(id, {"controller"}) THEN Throw(c, "AccessDenied", 0)
        ELSE IF vin = "" THEN Throw(c, "VinRequired", 0)
        ELSE IF ~hasState(state, vehKey) THEN Throw(c, "NotFound", 0)
        ELSE IF Len(windowVotes) = 0
             THEN Return(c, state, 0,
                         [vin |-> vin, decision |-> "no-votes", ones |-> 0,
                          zeros |-> 0, before |-> before, after |-> before,
                          delta |-> 0])
        ELSE IF zeros > ones
             THEN Return(c, putState(state, vehKey, vehicle), 1,
                         [vin |-> vin, decision |-> "penalized-majority0",
                          ones |-> ones, zeros |-> zeros, before |-> before,
                          after |-> after, delta |-> 0 - dec,
                          overallAfter |-> overallAfter])
             ELSE Return(c, state, 0,
                         [vin |-> vin,
                          decision |-> IF ones > zeros THEN "majority1-no-penalty"
                                       ELSE "no-majority",
                          ones |-> ones, zeros |-> zeros, before |-> before,
                          after |-> before, delta |-> 0])

----------------------------------------------------------------------------
(* poison.js *)

TOL_LINK_QUALITY == 5
TOL_LATENCY == 100
TOL_BANDWIDTH == 50

\* the empty object {} that parseMaybeJson falls back to
EmptyObject == << >>

\* An argument is a routing-data object (a JSON object, or a string that
\* decodes to one), or the string BadJson that JSON.parse rejects / is empty.
BadJson == [undecodable |-> TRUE]

parseMaybeJson(objOrStr) == IF objOrStr = BadJson THEN EmptyObject ELSE objOrStr

\* String(x.f)
StringField(r, f) == IF f \in DOMAIN r THEN r[f] ELSE "undefined"

\* variant: two values that are both not finite numbers count as equal
approxEqual_BothMissing(a, b, tol) ==
    \/ ~isFinite(Number(a)) /\ ~isFinite(Number(b))
    \/ /\ isFinite(Number(a))
       /\ isFinite(Number(b))
       /\ Abs(Number(a) - Number(b)) <= tol

approxEqual(a, b, tol) ==
    /\ isFinite(Number(a))
    /\ isFinite(Number(b))
    /\ Abs(Number(a) - Number(b)) <= tol

arraysEqual(a, b, aIsArray, bIsArray) ==
    /\ aIsArray
    /\ bIsArray
    /\ Len(a) = Len(b)
    /\ \A i \in 1..Len(a) : a[i] = b[i]

\* String(s || '').toUpperCase() on the status strings that occur
StatusUpper(r) ==
    LET s == IF "Status" \in DOMAIN r THEN r.Status ELSE ""
    IN  CASE s = "active" -> "ACTIVE"
          [] s = "Active" -> "ACTIVE"
          [] s = "down" -> "DOWN"
          [] OTHER -> s

routingDataMatches_StatusBothPresent(a, b) ==
    /\ StringField(a, "DestinationID") = StringField(b, "DestinationID")
    /\ StringField(a, "NextHopID") = StringField(b, "NextHopID")
    /\ arraysEqual(IF "Path" \in DOMAIN a THEN a.Path ELSE <<>>,
                   IF "Path" \in DOMAIN b THEN b.Path ELSE <<>>,
                   "Path" \in DOMAIN a, "Path" \in DOMAIN b)
    /\ toNumberOrZero(GetField(a, "HopCount")) = toNumberOrZero(GetField(b, "HopCount"))
    /\ approxEqual(GetField(a, "LinkQuality"), GetField(b, "LinkQuality"),
                   TOL_LINK_QUALITY)
    /\ approxEqual(GetField(a, "Latency"), GetField(b, "Latency"), TOL_LATENCY)
    /\ approxEqual(GetField(a, "Bandwidth"), GetField(b, "Bandwidth"), TOL_BANDWIDTH)
    /\ (StatusUpper(a) # "" /\ StatusUpper(b) # "") => StatusUpper(a) = StatusUpper(b)

routingDataMatches(a, b) ==
    /\ StringField(a, "DestinationID") = StringField(b, "DestinationID")
    /\ StringField(a, "NextHopID") = StringField(b, "NextHopID")
    /\ arraysEqual(IF "Path" \in DOMAIN a THEN a.Path ELSE <<>>,
                   IF "Path" \in DOMAIN b THEN b.Path ELSE <<>>,
                   "Path" \in DOMAIN a, "Path" \in DOMAIN b)
    /\ toNumberOrZero(GetField(a, "HopCount")) = toNumberOrZero(GetField(b, "HopCount"))
    /\ approxEqual(GetField(a, "LinkQuality"), GetField(b, "LinkQuality"),
                   TOL_LINK_QUALITY)
    /\ approxEqual(GetField(a, "Latency"), GetField(b, "Latency"), TOL_LATENCY)
    /\ approxEqual(GetField(a, "Bandwidth"), GetField(b, "Bandwidth"), TOL_BANDWIDTH)
    /\ ("Status" \in DOMAIN a \/ "Status" \in DOMAIN b) => StatusUpper(a) = StatusUpper(b)

storeNeighborRoutingVote(id, tx, vin, neighborId, vote, routingData, timestamp) ==
    LET c == [op |-> "storePoisonNeighborRoutingVote", id |-> id, tx |-> tx,
              vin |-> vin, neighborId |-> neighborId, vote |-> vote,
              routingData |-> routingData, timestamp |-> timestamp]
        vehKey == keyForVehicle(vin)
        entry == [neighborId |-> neighborId,
                  vote |-> NormalizeVote(vote),
                  routingData |-> parseMaybeJson(routingData),
                  timestamp |-> EntryTimestamp(timestamp, tx)]
        vehicle == [state[vehKey] EXCEPT
                        !.neighborArrayRoutingData = Append(@, entry)]
    IN  IF ~requireRole(id, {"vehicle"}) THEN Throw(c, "AccessDenied", 0)
        ELSE IF vin = "" \/ neighborId = "" \/ vote \in {Undefined, Null}
             THEN Throw(c, "ArgsRequired", 0)
        ELSE IF ~hasState(state, vehKey) THEN Throw(c, "NotFound", 0)
        ELSE Return(c, putState(state, vehKey, vehicle), 1,
                    [vin |-> vin, lastVote |-> entry,
                     count |-> Len(vehicle.neighborArrayRoutingData)])

PoisonDecision_MismatchTwo(recent, rdV) ==
    LET ones == Ones(recent)
        zeros == Zeros(recent)
        sample == ones[1]
    IN  IF Len(ones) > Len(zeros)
        THEN IF ~routingDataMatches(sample.routingData, rdV)
             THEN [decision |-> "penalized-mismatch", delta |-> -2]
             ELSE [decision |-> "majority1-match-no-penalty", delta |-> 0]
        ELSE IF Len(zeros) > Len(ones)
             THEN [decision |-> "penalized-majority0", delta |-> -2]
             ELSE [decision |-> "no-majority", delta |-> 0]

PoisonDecision(recent, rdV) ==
    LET ones == Ones(recent)
        zeros == Zeros(recent)
        sample == ones[1]
    IN  IF Len(ones) > Len(zeros)
        THEN IF ~routingDataMatches(sample.routingData, rdV)
             THEN [decision |-> "penalized-mismatch", delta |-> -1]
             ELSE [decision |-> "majority1-match-no-penalty", delta |-> 0]
        ELSE IF Len(zeros) > Len(ones)
             THEN [decision |-> "penalized-majority0", delta |-> -2]
             ELSE [decision |-> "no-majority", delta |-> 0]

\* variant: the 24-hour cutoff is taken from the transaction time
crossValidationPoison_TxCutoff(id, tx, vin, routingDataV, timestampV) ==
    LET c == [op |-> "crossValidationPoison", id |-> id, tx |-> tx, vin |-> vin,
              routingDataV |-> routingDataV, timestampV |-> timestampV]
        vehKey == keyForVehicle(vin)
        rdV == parseMaybeJson(routingDataV)
        tRef == DateParse(EntryTimestamp(timestampV, tx))
        windowStart == tRef - WINDOW_MS_10MIN
        cutoff24h == DateParse(txNowIso(tx)) - WINDOW_MS_24H
        allVotes == state[vehKey].neighborArrayRoutingData
        kept == SelectSeq(allVotes, LAMBDA e : /\ isFinite(DateParse(e.timestamp))
                                               /\ DateParse(e.timestamp) >= cutoff24h)
        recent == SelectSeq(kept, LAMBDA e : /\ DateParse(e.timestamp) >= windowStart
                                             /\ DateParse(e.timestamp) <= tRef)
        purgeWrites == IF Len(kept) # Len(allVotes) THEN 1 ELSE 0
        pruned == IF Len(kept) # Len(allVotes)
                  THEN [state[vehKey] EXCEPT !.neighborArrayRoutingData = kept]
                  ELSE state[vehKey]
        d == PoisonDecision(recent, rdV)
        before == toNumberOrZero(pruned.trustScorePoison)
        after == ClampScore(before, d.delta)
        scored == [pruned EXCEPT !.trustScorePoison = after]
        vehicle == SetField(scored, "overallTrustScore", computeOverallTrust(scored))
    IN  IF ~requireRole(id, {"vehicle"}) THEN Throw(c, "AccessDenied", 0)
        ELSE IF ~ensureVehicleOwnsVIN(id, vin) THEN Throw(c, "NotOwner", 0)
        ELSE IF vin = "" THEN Throw(c, "VinRequired", 0)
        ELSE IF ~hasState(state, vehKey) THEN Throw(c, "NotFound", 0)
        ELSE IF ~isFinite(tRef) THEN Throw(c, "InvalidTimestamp", 0)
        ELSE IF Len(recent) = 0
             THEN Return(c, putState(state, vehKey, pruned), purgeWrites,
                         [vin |-> vin, decision |-> "no-votes", considered |-> 0,
                          before |-> before, after |-> before, delta |-> 0])
        ELSE IF d.delta # 0
             THEN Return(c, putState(state, vehKey, vehicle), purgeWrites + 1,
                         [vin |-> vin, decision |-> d.decision,
                          considered |-> Len(recent), before |-> before,
                          after |-> after, delta |-> d.delta,
                          overallAfter |-> vehicle.overallTrustScore])
             ELSE Return(c, putState(state, vehKey, pruned), purgeWrites,
                         [vin |-> vin, decision |-> d.decision,
                          considered |-> Len(recent), before |-> before,
                          after |-> after, delta |-> d.delta,
                          overallAfter |-> GetField(pruned, "overallTrustScore")])

crossValidationPoison(id, tx, vin, routingDataV, timestampV) ==
    LET c == [op |-> "crossValidationPoison", id |-> id, tx |-> tx, vin |-> vin,
              routingDataV |-> routingDataV, timestampV |-> timestampV]
        vehKey == keyForVehicle(vin)
        rdV == parseMaybeJson(routingDataV)
        tRef == DateParse(EntryTimestamp(timestampV, tx))
        windowStart == tRef - WINDOW_MS_10MIN
        cutoff24h == tRef - WINDOW_MS_24H
        allVotes == state[vehKey].neighborArrayRoutingData
        kept == SelectSeq(allVotes, LAMBDA e : /\ isFinite(DateParse(e.timestamp))
                                               /\ DateParse(e.timestamp) >= cutoff24h)
        recent == SelectSeq(kept, LAMBDA e : /\ DateParse(e.timestamp) >= windowStart
                                             /\ DateParse(e.timestamp) <= tRef)
        purgeWrites == IF Len(kept) # Len(allVotes) THEN 1 ELSE 0
        pruned == IF Len(kept) # Len(allVotes)
                  THEN [state[vehKey] EXCEPT !.neighborArrayRoutingData = kept]
                  ELSE state[vehKey]
        d == PoisonDecision(recent, rdV)
        before == toNumberOrZero(pruned.trustScorePoison)
        after == ClampScore(before, d.delta)
        scored == [pruned EXCEPT !.trustScorePoison = after]
        vehicle == SetField(scored, "overallTrustScore", computeOverallTrust(scored))
    IN  IF ~requireRole(id, {"vehicle"}) THEN Throw(c, "AccessDenied", 0)
        ELSE IF ~ensureVehicleOwnsVIN(id, vin) THEN Throw(c, "NotOwner", 0)
        ELSE IF vin = "" THEN Throw(c, "VinRequired", 0)
        ELSE IF ~hasState(state, vehKey) THEN Throw(c, "NotFound", 0)
        ELSE IF ~isFinite(tRef) THEN Throw(c, "InvalidTimestamp", 0)
        ELSE IF Len(recent) = 0
             THEN Return(c, putState(state, vehKey, pruned), purgeWrites,
                         [vin |-> vin, decision |-> "no-votes", considered |-> 0,
                          before |-> before, after |-> before, delta |-> 0])
        ELSE IF d.delta # 0
             THEN Return(c, putState(state, vehKey, vehicle), purgeWrites + 1,
                         [vin |-> vin, decision |-> d.decision,
                          considered |-> Len(recent), before |-> before,
                          after |-> after, delta |-> d.delta,
                          overallAfter |-> vehicle.overallTrustScore])
             ELSE Return(c, putState(state, vehKey, pruned), purgeWrites,
                         [vin |-> vin, decision |-> d.decision,
                          considered |-> Len(recent), before |-> before,
                          after |-> after, delta |-> d.delta,
                          overallAfter |-> GetField(pruned, "overallTrustScore")])

----------------------------------------------------------------------------
(* replay.js *)

FlowLog(vehicle) ==
    IF "flowIdReplay" \in DOMAIN vehicle THEN vehicle.flowIdReplay ELSE <<>>

storeFlowIdReplay(id, tx, senderVin, flowId, timestamp) ==
    LET c == [op |-> "storeFlowIdReplay", id |-> id, tx |-> tx, vin |-> senderVin,
              flowId |-> flowId, timestamp |-> timestamp]
        vehKey == keyForVehicle(senderVin)
        tsIso == EntryTimestamp(timestamp, tx)
        entry == [flowId |-> flowId, timestamp |-> tsIso]
        vehicle == SetField(state[vehKey], "flowIdReplay",
                            Append(FlowLog(state[vehKey]), entry))
    IN  IF ~requireRole(id, {"vehicle"}) THEN Throw(c, "AccessDenied", 0)
        ELSE IF senderVin = "" \/ flowId = "" THEN Throw(c, "ArgsRequired", 0)
        ELSE IF ~hasState(state, vehKey) THEN Throw(c, "NotFound", 0)
        ELSE Return(c, putState(state, vehKey, vehicle), 1,
                    [vin |-> senderVin, stored |-> entry,
                     count |-> Len(vehicle.flowIdReplay)])

checkFlowIdReplay_PenaliseReplay(id, tx, senderVin, flowId) ==
    LET c == [op |-> "checkFlowIdReplay", id |-> id, tx |-> tx, vin |-> senderVin,
              flowId |-> flowId]
        vehKey == keyForVehicle(senderVin)
        nowMs == DateParse(txNowIso(tx))
        cutoff == nowMs - WINDOW_MS_24H
        all == FlowLog(state[vehKey])
        recent == InWindow(all, cutoff, nowMs)
        purged == Len(all) - Len(recent)
        exists == \E i \in 1..Len(recent) : recent[i].flowId = flowId
        penalised == [state[vehKey] EXCEPT
                          !.trustScoreReplay = Max(0, Number(@) - 1)]
        out == [vin |-> senderVin, exists |-> exists,
                recentCount |-> Len(recent), purged |-> purged,
                checkedAt |-> txNowIso(tx)]
    IN  IF ~requireRole(id, {"vehicle"}) THEN Throw(c, "AccessDenied", 0)
        ELSE IF senderVin = "" \/ flowId = "" THEN Throw(c, "ArgsRequired", 0)
        ELSE IF ~hasState(state, vehKey) THEN Throw(c, "NotFound", 0)
        ELSE IF purged > 0 \/ exists
             THEN Return(c, putState(state, vehKey,
                              SetField(IF exists THEN penalised ELSE state[vehKey],
                                       "flowIdReplay", recent)),
                         1, out)
             ELSE Return(c, state, 0, out)

checkFlowIdReplay_ExistsBeforePurge(id, tx, senderVin, flowId) ==
    LET c == [op |-> "checkFlowIdReplay", id |-> id, tx |-> tx, vin |-> senderVin,
              flowId |-> flowId]
        vehKey == keyForVehicle(senderVin)
        nowMs == DateParse(txNowIso(tx))
        cutoff == nowMs - WINDOW_MS_24H
        all == FlowLog(state[vehKey])
        recent == InWindow(all, cutoff, nowMs)
        purged == Len(all) - Len(recent)
        exists == \E i \in 1..Len(all) : all[i].flowId = flowId
        out == [vin |-> senderVin, exists |-> exists,
                recentCount |-> Len(recent), purged |-> purged,
                checkedAt |-> txNowIso(tx)]
    IN  IF ~requireRole(id, {"vehicle"}) THEN Throw(c, "AccessDenied", 0)
        ELSE IF senderVin = "" \/ flowId = "" THEN Throw(c, "ArgsRequired", 0)
        ELSE IF ~hasState(state, vehKey) THEN Throw(c, "NotFound", 0)
        ELSE IF purged > 0
             THEN Return(c, putState(state, vehKey,
                              SetField(state[vehKey], "flowIdReplay", recent)),
                         1, out)
             ELSE Return(c, state, 0, out)

checkFlowIdReplay(id, tx, senderVin, flowId) ==
    LET c == [op |-> "checkFlowIdReplay", id |-> id, tx |-> tx, vin |-> senderVin,
              flowId |-> flowId]
        vehKey == keyForVehicle(senderVin)
        nowMs == DateParse(txNowIso(tx))
        cutoff == nowMs - WINDOW_MS_24H
        all == FlowLog(state[vehKey])
        recent == InWindow(all, cutoff, nowMs)
        purged == Len(all) - Len(recent)
        exists == \E i \in 1..Len(recent) : recent[i].flowId = flowId
        out == [vin |-> senderVin, exists |-> exists,
                recentCount |-> Len(recent), purged |-> purged,
                checkedAt |-> txNowIso(tx)]
    IN  IF ~requireRole(id, {"vehicle"}) THEN Throw(c, "AccessDenied", 0)
        ELSE IF senderVin = "" \/ flowId = "" THEN Throw(c, "ArgsRequired", 0)
        ELSE IF ~hasState(state, vehKey) THEN Throw(c, "NotFound", 0)
        ELSE IF purged > 0
             THEN Return(c, putState(state, vehKey,
                              SetField(state[vehKey], "flowIdReplay", recent)),
                         1, out)
             ELSE Return(c, state, 0, out)

----------------------------------------------------------------------------
(* Inputs shared by the specifications *)

TrustedAuthorityId == [role |-> "trustedAuthority", vin |-> ""]
ControllerId == [role |-> "controller", vin |-> ""]
Vehicle1Id == [role |-> "vehicle", vin |-> "1"]
UnboundVehicleId == [role |-> "VEHICLE", vin |-> ""]
NoRoleId == [role |-> "", vin |-> ""]

\* caller identities: the three roles, a vehicle identity without a VIN
\* attribute (role in upper case), and an identity without a role attribute
Identities ==
    {TrustedAuthorityId, ControllerId, Vehicle1Id, UnboundVehicleId, NoRoleId}

VinUniverse == {"1", "2", "3", "4"}

T0 == [seconds |-> 100000, nanos |-> 0]

\* how far a sub-score is from its initial value (0 counts as one step)
DropWeight(score) == IF score = 0 THEN 1 ELSE 100 - score

\* number of log entries and score changes of a vehicle record
VehicleWeight(v) ==
    Len(v.neighborArray) + Len(v.neighborArrayBlackholeVotes)
    + Len(v.neighborArrayRoutingData) + Len(v.locations)
    + (IF "flowIdReplay" \in DOMAIN v THEN Len(v.flowIdReplay) ELSE 0)
    + DropWeight(v.trustedScoreWromehole)
    + DropWeight(v.trustScoreBlackhole)
    + DropWeight(v.trustScorePoison)

RECURSIVE SumWeights(_, _)
SumWeights(st, keys) ==
    IF keys = {} THEN 0
    ELSE LET k == CHOOSE x \in keys : TRUE
         IN  (IF k[1] = "vehicle" THEN 1 + VehicleWeight(st[k]) ELSE 1)
             + SumWeights(st, keys \ {k})

\* size of the ledger: records, log entries, changed fields
Weight(st) == SumWeights(st, DOMAIN st)

----------------------------------------------------------------------------
(* Specification Spec: every chaincode function invoked by every kind of   *)
(* caller, from the empty ledger; the ledger is kept within MaxWeight.     *)

MaxWeight == 3

CoreVins == {"1", "2"}

\* (start, end) arguments of storeVINRange
CoreRanges == {<<1, 2>>, <<2, 1>>, <<0, 2>>, <<1, NaN>>}

\* (publicKey, registrationStatus) arguments of registerVehicle
CoreRegistrations == {<<"pk", "">>, <<"", "active">>}

RdA == [DestinationID |-> "D", NextHopID |-> "N", Path |-> <<"a", "b">>,
        HopCount |-> 2, LinkQuality |-> 90, Latency |-> 1000, Bandwidth |-> 500]

Bounded == Weight(state') <= MaxWeight

StoreVIN ==
    \E id \in Identities, vin \in CoreVins : storeVIN(id, T0, vin) /\ Bounded

StoreVINRange ==
    \E id \in Identities, r \in CoreRanges :
        storeVINRange(id, T0, r[1], r[2]) /\ Bounded

RegisterVehicle ==
    \E id \in Identities, vin \in CoreVins, a \in CoreRegistrations :
        registerVehicle(id, T0, vin, a[1], a[2]) /\ Bounded

GetVehicle ==
    \E id \in Identities, vin \in CoreVins : getVehicle(id, T0, vin) /\ Bounded

ResetTrustScores ==
    \E id \in Identities, vin \in CoreVins : resetTrustScores(id, T0, vin) /\ Bounded

StoreLocation ==
    \E id \in Identities, vin \in CoreVins :
        storeLocation(id, T0, vin, 0, 0, NoTs) /\ Bounded

ListVINStatuses ==
    \E id \in Identities : listVINStatuses(id, T0) /\ Bounded

StoreNeighborVote ==
    \E id \in Identities, vin \in CoreVins :
        storeNeighborVote(id, T0, vin, "n1", 1, 0, 0, NoTs) /\ Bounded

CrossValidation ==
    \E id \in Identities, vin \in CoreVins :
        crossValidation(id, T0, vin, 0, 0, NoTs) /\ Bounded

StoreNeighborVoteV3 ==
    \E id \in Identities, vin \in CoreVins :
        storeNeighborVoteV3(id, T0, vin, 0, NoTs) /\ Bounded

CrossValidationV3 ==
    \E id \in Identities, vin \in CoreVins : crossValidationV3(id, T0, vin) /\ Bounded

StoreBlackholeNeighborVote ==
    \E id \in Identities, vin \in CoreVins :
        storeNeighborVoteBlackhole(id, T0, vin, "n1", 0, NoTs) /\ Bounded

ReduceBlackholeScore ==
    \E id \in Identities, vin \in CoreVins :
        reduceTrustScoreBlackhole(id, T0, vin, 100) /\ Bounded

EvaluateBlackholeVotes ==
    \E id \in Identities, vin \in CoreVins :
        evaluateBlackholeVotes(id, T0, vin, Undefined) /\ Bounded

StorePoisonNeighborRoutingVote ==
    \E id \in Identities, vin \in CoreVins :
        storeNeighborRoutingVote(id, T0, vin, "n1", 0, RdA, NoTs) /\ Bounded

CrossValidationPoison ==
    \E id \in Identities, vin \in CoreVins :
        crossValidationPoison(id, T0, vin, RdA, NoTs) /\ Bounded

StoreFlowIdReplay ==
    \E id \in Identities, vin \in CoreVins :
        storeFlowIdReplay(id, T0, vin, "f1", NoTs) /\ Bounded

CheckFlowIdReplay ==
    \E id \in Identities, vin \in CoreVins :
        checkFlowIdReplay(id, T0, vin, "f1") /\ Bounded

Init ==
    /\ state = << >>
    /\ call = [op |-> "none"]
    /\ result = [ok |-> TRUE, error |-> "", puts |-> 0]
    /\ inserted = [v \in VinUniverse |-> <<>>]

Next ==
    \/ StoreVIN
    \/ StoreVINRange
    \/ RegisterVehicle
    \/ GetVehicle
    \/ ResetTrustScores
    \/ StoreLocation
    \/ ListVINStatuses
    \/ StoreNeighborVote
    \/ CrossValidation
    \/ StoreNeighborVoteV3
    \/ CrossValidationV3
    \/ StoreBlackholeNeighborVote
    \/ ReduceBlackholeScore
    \/ EvaluateBlackholeVotes
    \/ StorePoisonNeighborRoutingVote
    \/ CrossValidationPoison
    \/ StoreFlowIdReplay
    \/ CheckFlowIdReplay

Spec == Init /\ [][Next]_vars

----------------------------------------------------------------------------
(* Properties checked under Spec *)

\* the operation -> allowed roles table of the interface description
TableRoles(op) ==
    CASE op \in {"storeVIN", "storeVINRange"} -> {"trustedauthority"}
      [] op \in {"registerVehicle", "storeNeighborVoteV3", "crossValidationV3",
                 "evaluateBlackholeVotes", "reduceBlackholeScore"} -> {"controller"}
      [] op \in {"listVINStatuses", "resetTrustScores"} ->
            {"controller", "trustedauthority"}
      [] op = "getVehicle" -> {"controller", "trustedauthority", "vehicle"}
      [] op = "storeLocation" -> {"controller", "vehicle"}
      [] op \in {"storeNeighborVote", "crossValidation",
                 "storeBlackholeNeighborVote", "storePoisonNeighborRoutingVote",
                 "crossValidationPoison", "storeFlowIdReplay",
                 "checkFlowIdReplay"} -> {"vehicle"}
      [] OTHER -> {"trustedauthority", "controller", "vehicle", ""}

OutsideAllowedSet(c) ==
    c.op # "none" /\ toLowerCase(c.id.role) \notin TableRoles(c.op)

\* C1: a call by a role outside the operation's allowed set fails with the
\* access-denied error, writes nothing and leaves the whole ledger as it was.
C1_UnauthorizedCallRejected ==
    [][OutsideAllowedSet(call') =>
          /\ ~result'.ok
          /\ result'.error = "AccessDenied"
          /\ result'.puts = 0
          /\ state' = state]_vars

\* a trusted authority was refused storeLocation or crossValidationPoison
\* on a registered vehicle
C1_Witness ==
    /\ call.op \in {"storeLocation", "crossValidationPoison"}
    /\ call.id = TrustedAuthorityId
    /\ hasState(state, keyForVehicle(call.vin))
    /\ result.error = "AccessDenied"

OwnershipRestricted ==
    {"getVehicle", "storeLocation", "crossValidation", "crossValidationPoison"}

\* C2: on an ownership-restricted operation a vehicle caller whose VIN
\* attribute is absent or differs from the target vin is refused and nothing
\* changes; a controller or trusted authority never gets the ownership error.
C2_OwnershipEnforced ==
    [][call'.op \in OwnershipRestricted =>
          /\ (/\ toLowerCase(call'.id.role) = "vehicle"
              /\ (call'.id.vin = "" \/ call'.id.vin # call'.vin))
             => (/\ ~result'.ok
                 /\ result'.error = "NotOwner"
                 /\ result'.puts = 0
                 /\ state' = state)
          /\ toLowerCase(call'.id.role) \in {"controller", "trustedauthority"}
             => result'.error # "NotOwner"]_vars

\* vehicle "1" was refused crossValidation on the registered vehicle "2"
C2_Witness ==
    /\ call.op = "crossValidation"
    /\ call.id = Vehicle1Id
    /\ call.vin = "2"
    /\ hasState(state, keyForVehicle("2"))
    /\ result.error = "NotOwner"

C3_Inv ==
    \A vin \in VinUniverse :
        hasState(state, keyForVehicle(vin)) => hasState(state, keyForVinAuthority(vin))

C3_Step ==
    (call'.op = "registerVehicle" /\ ~hasState(state, keyForVinAuthority(call'.vin)))
    => (~result'.ok /\ ~hasState(state', keyForVehicle(call'.vin)))

\* C3: a vehicle record exists only if the authority record of its VIN
\* exists, and registerVehicle for a VIN without authority record fails and
\* creates no vehicle record.
C3_VehicleImpliesAuthority == []C3_Inv /\ [][C3_Step]_vars

\* with a vehicle registered, a controller's registration of another VIN
\* was refused for lack of an authority record
C3_Witness ==
    /\ call.op = "registerVehicle"
    /\ result.error = "AuthorityNotFound"
    /\ \E vin \in VinUniverse : hasState(state, keyForVehicle(vin))

\* C4: once a vehicle record exists for vin, every later registerVehicle
\* call for that vin fails and leaves the ledger (hence the record) unchanged.
C4_RegisterAtMostOnce ==
    [][(call'.op = "registerVehicle" /\ hasState(state, keyForVehicle(call'.vin)))
          => (~result'.ok /\ state' = state)]_vars

\* a second registration by a controller of a vehicle
\* that already carries log entries was refused
C4_Witness ==
    /\ call.op = "registerVehicle"
    /\ result.error = "AlreadyRegistered"
    /\ VehicleWeight(state[keyForVehicle(call.vin)]) > 0

\* C5: right after a successful registerVehicle the new record has its five
\* sub-scores at 100 and its vote logs, flow-id log and location history empty.
C5_FreshRecord ==
    (call.op = "registerVehicle" /\ result.ok) =>
        LET v == state[keyForVehicle(call.vin)]
        IN  /\ v.trustedScoreSybil = 100
            /\ v.trustedScoreWromehole = 100
            /\ v.trustScoreBlackhole = 100
            /\ v.trustScorePoison = 100
            /\ v.trustScoreReplay = 100
            /\ v.neighborArray = <<>>
            /\ v.neighborArrayBlackholeVotes = <<>>
            /\ v.neighborArrayRoutingData = <<>>
            /\ ("flowIdReplay" \in DOMAIN v => v.flowIdReplay = <<>>)
            /\ v.locations = <<>>
            /\ result.out = v

C5_Witness ==
    /\ call.op = "registerVehicle"
    /\ result.ok
    /\ state[keyForVehicle(call.vin)].registrationStatus = "registered"

----------------------------------------------------------------------------
(* Specification SpecLoc: the location history of a registered vehicle.    *)
(* The ledger starts as storeVIN("1") and registerVehicle("1") leave it;   *)
(* the k-th stored location carries latitude k, so entries are distinct.   *)

MaxLocOps == 22

RegisteredLedger ==
    putState(putState(<< >>, keyForVinAuthority("1"), AuthorityRecord("1", T0)),
             keyForVehicle("1"), NewVehicle("1", "pk", "", T0))

LocInit ==
    /\ state = RegisteredLedger
    /\ call = [op |-> "none"]
    /\ result = [ok |-> TRUE, error |-> "", puts |-> 0]
    /\ inserted = [v \in VinUniverse |-> <<>>]

LocStoreLocation ==
    \E id \in Identities, vin \in CoreVins :
        /\ Len(inserted[vin]) < MaxLocOps
        /\ storeLocation(id, T0, vin, Len(inserted[vin]) + 1, NaN, NoTs)

LocGetVehicle ==
    \E id \in {ControllerId, Vehicle1Id} : getVehicle(id, T0, "1")

LocResetTrustScores ==
    \E id \in {ControllerId, Vehicle1Id} : resetTrustScores(id, T0, "1")

LocNext ==
    \/ LocStoreLocation
    \/ LocGetVehicle
    \/ LocResetTrustScores

SpecLoc == LocInit /\ [][LocNext]_vars

\* C6: a location history never holds more than 20 entries, and after N
\* successful storeLocation calls for a vehicle it is exactly the last
\* min(N, 20) entries that were inserted, oldest first.
C6_LocationHistory ==
    \A vin \in VinUniverse :
        hasState(state, keyForVehicle(vin)) =>
            LET locs == state[keyForVehicle(vin)].locations
                n == Len(inserted[vin])
                k == IF n < 20 THEN n ELSE 20
            IN  /\ Len(locs) <= 20
                /\ Len(locs) = k
                /\ \A i \in 1..k : locs[i] = inserted[vin][n - k + i]

\* the 22nd location was stored: the two oldest entries have been dropped
C6_Witness ==
    /\ call.op = "storeLocation"
    /\ result.ok
    /\ Len(inserted["1"]) = 22
    /\ Len(state[keyForVehicle("1")].locations) = 20
    /\ state[keyForVehicle("1")].locations[1].latitude = 3

----------------------------------------------------------------------------
(* Specification SpecScore: the trust scores of one registered vehicle.    *)
(* Besides the freshly registered record the ledger may start with the     *)
(* wormhole and/or poison score at 1 and the persisted overall score up to *)
(* date: the record left by 99 penalised crossValidationPoison calls and   *)
(* 99 penalised crossValidationV3 calls followed, a day later, by a        *)
(* crossValidationPoison and a crossValidationV3 call that purge the logs. *)

MaxScoreWeight == 3

SeededVehicle(w, p) ==
    LET v == [NewVehicle("1", "pk", "", T0) EXCEPT
                  !.trustedScoreWromehole = w, !.trustScorePoison = p]
    IN  IF w = InitialScore /\ p = InitialScore THEN v
        ELSE SetField(v, "overallTrustScore", computeOverallTrust(v))

\* distance of a score from the values 100 and 1 the ledger starts with
ScoreCost(s) == IF s >= 50 THEN 100 - s ELSE IF s = 1 THEN 0 ELSE 1

ScoreWeight(v) ==
    Len(v.neighborArray) + Len(v.neighborArrayBlackholeVotes)
    + Len(v.neighborArrayRoutingData)
    + ScoreCost(v.trustedScoreWromehole) + ScoreCost(v.trustScoreBlackhole)
    + ScoreCost(v.trustScorePoison)

ScoreBounded == ScoreWeight(state'[keyForVehicle("1")]) <= MaxScoreWeight

ScoreInit ==
    /\ \E w \in {1, InitialScore}, p \in {1, InitialScore} :
          state = putState(RegisteredLedger, keyForVehicle("1"), SeededVehicle(w, p))
    /\ call = [op |-> "none"]
    /\ result = [ok |-> TRUE, error |-> "", puts |-> 0]
    /\ inserted = [v \in VinUniverse |-> <<>>]

\* the routing data a neighbour contradicts
RdB == [RdA EXCEPT !.NextHopID = "M"]

ScoreStoreNeighborVote ==
    \E vote \in {0, 1} :
        storeNeighborVote(Vehicle1Id, T0, "1", "n1", vote, 0, 0, NoTs) /\ ScoreBounded

ScoreCrossValidation ==
    \E id \in {Vehicle1Id, ControllerId}, longitudeV \in {0, 6} :
        crossValidation(id, T0, "1", longitudeV, 0, NoTs) /\ ScoreBounded

ScoreStoreNeighborVoteV3 ==
    storeNeighborVoteV3(ControllerId, T0, "1", 0, NoTs) /\ ScoreBounded

ScoreCrossValidationV3 ==
    crossValidationV3(ControllerId, T0, "1") /\ ScoreBounded

ScoreStoreBlackholeNeighborVote ==
    storeNeighborVoteBlackhole(Vehicle1Id, T0, "1", "n1", 0, NoTs) /\ ScoreBounded

ScoreEvaluateBlackholeVotes ==
    \E reduceBy \in {Undefined, 2, -5} :
        evaluateBlackholeVotes(ControllerId, T0, "1", reduceBy) /\ ScoreBounded

ScoreReduceBlackholeScore ==
    \E delta \in {Undefined, 100, -5} :
        reduceTrustScoreBlackhole(ControllerId, T0, "1", delta) /\ ScoreBounded

ScoreStorePoisonNeighborRoutingVote ==
    \E vote \in {0, 1} :
        storeNeighborRoutingVote(Vehicle1Id, T0, "1", "n1", vote, RdA, NoTs)
        /\ ScoreBounded

ScoreCrossValidationPoison ==
    \E routingDataV \in {RdA, RdB} :
        crossValidationPoison(Vehicle1Id, T0, "1", routingDataV, NoTs) /\ ScoreBounded

ScoreResetTrustScores == resetTrustScores(ControllerId, T0, "1") /\ ScoreBounded

ScoreGetVehicle ==
    \E id \in {Vehicle1Id, ControllerId, TrustedAuthorityId} :
        getVehicle(id, T0, "1") /\ ScoreBounded

ScoreNext ==
    \/ ScoreStoreNeighborVote
    \/ ScoreCrossValidation
    \/ ScoreStoreNeighborVoteV3
    \/ ScoreCrossValidationV3
    \/ ScoreStoreBlackholeNeighborVote
    \/ ScoreEvaluateBlackholeVotes
    \/ ScoreReduceBlackholeScore
    \/ ScoreStorePoisonNeighborRoutingVote
    \/ ScoreCrossValidationPoison
    \/ ScoreResetTrustScores
    \/ ScoreGetVehicle

SpecScore == ScoreInit /\ [][ScoreNext]_vars

\* round(mean of the five stored sub-scores), halves rounded up
RoundedMean(v) ==
    LET total == v.trustedScoreSybil + v.trustedScoreWromehole
                 + v.trustScoreBlackhole + v.trustScorePoison + v.trustScoreReplay
    IN  CHOOSE r \in 0..100 : 10 * r - 5 <= 2 * total /\ 2 * total < 10 * r + 5

\* C7: a successful getVehicle returns as overallTrustScore the rounded mean
\* of the five sub-scores stored at that moment, whatever the persisted
\* overallTrustScore field holds, and writes nothing.
C7_OverallComputedOnRead ==
    [][(call'.op = "getVehicle" /\ result'.ok) =>
          /\ result'.out.overallTrustScore = RoundedMean(state[keyForVehicle(call'.vin)])
          /\ result'.puts = 0
          /\ state' = state]_vars

\* getVehicle answered on a record whose persisted overall score is stale
C7_Witness ==
    /\ call.op = "getVehicle"
    /\ result.ok
    /\ "overallTrustScore" \in DOMAIN state[keyForVehicle(call.vin)]
    /\ state[keyForVehicle(call.vin)].overallTrustScore # result.out.overallTrustScore

ScoreFields ==
    {"trustedScoreSybil", "trustedScoreWromehole", "trustScoreBlackhole",
     "trustScorePoison", "trustScoreReplay"}

C8_Inv ==
    \A vin \in VinUniverse :
        hasState(state, keyForVehicle(vin)) =>
            \A f \in ScoreFields : state[keyForVehicle(vin)][f] >= 0

\* the score a penalising call acts on
PenalisedField(op) ==
    CASE op \in {"crossValidation", "crossValidationV3"} -> "trustedScoreWromehole"
      [] op \in {"reduceBlackholeScore", "evaluateBlackholeVotes"} -> "trustScoreBlackhole"
      [] op = "crossValidationPoison" -> "trustScorePoison"
      [] OTHER -> "none"

\* the amount a successful call is to take off the score (0: no penalty)
PenaltyOf(c, r) ==
    CASE c.op \in {"crossValidation", "crossValidationPoison"} ->
            IF r.out.decision = "penalized-mismatch" THEN 1
            ELSE IF r.out.decision = "penalized-majority0" THEN 2 ELSE 0
      [] c.op = "crossValidationV3" ->
            IF r.out.decision = "penalized-majority0" THEN 1 ELSE 0
      [] c.op = "reduceBlackholeScore" ->
            IF c.delta = Undefined THEN 1 ELSE IF c.delta > 0 THEN c.delta ELSE 0
      [] c.op = "evaluateBlackholeVotes" ->
            IF r.out.decision # "penalized-majority0" THEN 0
            ELSE IF c.reduceBy = Undefined THEN 1
            ELSE IF c.reduceBy > 0 THEN c.reduceBy ELSE 0
      [] OTHER -> 0

C8_Step ==
    (result'.ok /\ PenalisedField(call'.op) # "none" /\ PenaltyOf(call', result') > 0)
    => LET before == state[keyForVehicle(call'.vin)][PenalisedField(call'.op)]
           after == state'[keyForVehicle(call'.vin)][PenalisedField(call'.op)]
       IN  /\ after >= 0
           /\ before < PenaltyOf(call', result') => after = 0

\* C8: every sub-score of every vehicle record is >= 0 in every reachable
\* state, and a penalty applied to a score smaller than the penalty leaves
\* exactly 0.
C8_ScoresNeverNegative == []C8_Inv /\ [][C8_Step]_vars

\* the V1 majority-0 penalty of 2 was applied to a wormhole score of 1
C8_Witness ==
    /\ call.op = "crossValidation"
    /\ result.ok
    /\ result.out.decision = "penalized-majority0"
    /\ result.out.before = 1
    /\ state[keyForVehicle(call.vin)].trustedScoreWromehole = 0

----------------------------------------------------------------------------
(* Specification SpecWormhole: V1 neighbour votes and cross-validation of  *)
(* one registered vehicle.  The wormhole score starts at 100 (fresh        *)
(* record) or at 1 or 0 (the record after 99 or 100 penalised              *)
(* crossValidationV3 calls and, a day later, one more that purges the      *)
(* log).                                                                   *)

MaxWormholeWeight == 4

\* a vote timestamp just outside the 10-minute window that ends at T0
OldTs == txNowIso(T0) - WINDOW_MS_10MIN - 1

\* (vote, longitude, latitude, timestamp) arguments of storeNeighborVote
WormholeVotes ==
    {<<1, 0, 0, NoTs>>, <<1, 5, -5, NoTs>>, <<1, 6, 0, NoTs>>,
     <<0, 0, 0, NoTs>>, <<1, 0, 0, OldTs>>}

\* (longitudeV, latitudeV) arguments of crossValidation
WormholeReports == {<<0, 0>>, <<6, 0>>, <<0, -6>>}

WormholeWeight(v) ==
    Len(v.neighborArray)
    + (IF v.trustedScoreWromehole >= 50 THEN 100 - v.trustedScoreWromehole ELSE 0)

WormholeBounded ==
    WormholeWeight(state'[keyForVehicle("1")]) <= MaxWormholeWeight

WormholeInit ==
    /\ \E w \in {0, 1, InitialScore} :
          state = putState(RegisteredLedger, keyForVehicle("1"),
                           SeededVehicle(w, InitialScore))
    /\ call = [op |-> "none"]
    /\ result = [ok |-> TRUE, error |-> "", puts |-> 0]
    /\ inserted = [v \in VinUniverse |-> <<>>]

WormholeStoreNeighborVote ==
    \E a \in WormholeVotes :
        storeNeighborVote(Vehicle1Id, T0, "1", "n1", a[1], a[2], a[3], a[4])
        /\ WormholeBounded

WormholeStoreNeighborVoteV3 ==
    storeNeighborVoteV3(ControllerId, T0, "1", 1, NoTs) /\ WormholeBounded

WormholeCrossValidation ==
    \E r \in WormholeReports, timestampV \in {NoTs, OldTs} :
        crossValidation(Vehicle1Id, T0, "1", r[1], r[2], timestampV)
        /\ WormholeBounded

WormholeNext ==
    \/ WormholeStoreNeighborVote
    \/ WormholeStoreNeighborVoteV3
    \/ WormholeCrossValidation

SpecWormhole == WormholeInit /\ [][WormholeNext]_vars

\* the instant a V1 cross-validation call refers to, in ms
ReferenceTime(c) == IF c.timestampV = NoTs THEN txNowIso(c.tx) ELSE c.timestampV

\* the votes of the record dated within the 10 minutes up to the reference time
VotesInWindow(v, c) ==
    SelectSeq(v.neighborArray,
              LAMBDA e : /\ e.timestamp >= ReferenceTime(c) - 600000
                         /\ e.timestamp <= ReferenceTime(c))

CountVotes(votes, b) == Cardinality({i \in 1..Len(votes) : votes[i].vote = b})

OnesMajority(v, c) == CountVotes(VotesInWindow(v, c), 1) > CountVotes(VotesInWindow(v, c), 0)

\* the first in-window entry with vote = 1
FirstOne(v, c) ==
    LET w == VotesInWindow(v, c)
    IN  w[CHOOSE i \in 1..Len(w) :
              w[i].vote = 1 /\ \A j \in 1..(i - 1) : w[j].vote # 1]

\* the coordinate is within 0.0005 degrees (5 units) of the reported one
Near(a, b) == a - b <= 5 /\ b - a <= 5

\* a successful V1 cross-validation with a majority of 1-votes whose first
\* 1-vote carries a location
V1MajorityOne(v, c, r) ==
    /\ c.op = "crossValidation"
    /\ r.ok
    /\ OnesMajority(v, c)
    /\ "location" \in DOMAIN FirstOne(v, c)

V1Match(v, c, r) ==
    /\ V1MajorityOne(v, c, r)
    /\ Near(FirstOne(v, c).location.longitude, c.longitudeV)
    /\ Near(FirstOne(v, c).location.latitude, c.latitudeV)

V1Mismatch(v, c, r) ==
    /\ V1MajorityOne(v, c, r)
    /\ \/ ~Near(FirstOne(v, c).location.longitude, c.longitudeV)
       \/ ~Near(FirstOne(v, c).location.latitude, c.latitudeV)

C10_MismatchPenalty ==
    [][V1Mismatch(state[keyForVehicle("1")], call', result') =>
          /\ result'.out.decision = "penalized-mismatch"
          /\ state' = [state EXCEPT ![keyForVehicle("1")].trustedScoreWromehole =
                           IF @ >= 1 THEN @ - 1 ELSE 0]]_vars

\* the mismatch penalty was applied to a record with votes of both kinds
\* and the latitude alone out of tolerance
C10_Witness ==
    /\ call.op = "crossValidation"
    /\ result.ok
    /\ result.out.decision = "penalized-mismatch"
    /\ result.out.considered = 3
    /\ call.latitudeV = -6
    /\ call.longitudeV = 0
    /\ result.out.before = 100
    /\ state[keyForVehicle("1")].trustedScoreWromehole = 99

\* a successful V1 cross-validation with more 0-votes than 1-votes in window
V1MajorityZero(v, c, r) ==
    /\ c.op = "crossValidation"
    /\ r.ok
    /\ CountVotes(VotesInWindow(v, c), 0) > CountVotes(VotesInWindow(v, c), 1)

\* C11: on a majority of 0-votes in the window the wormhole score becomes
\* max(0, before - 2) and the decision is `penalized-majority0`, whatever the
\* reported location and the locations of the votes are.
C11_MajorityZeroPenalty ==
    [][V1MajorityZero(state[keyForVehicle("1")], call', result') =>
          /\ result'.out.decision = "penalized-majority0"
          /\ state' = [state EXCEPT ![keyForVehicle("1")].trustedScoreWromehole =
                           IF @ >= 2 THEN @ - 2 ELSE 0]]_vars

\* two 0-votes outnumber a 1-vote whose location equals the report:
\* a score of 1 dropped to 0
C11_Witness ==
    /\ call.op = "crossValidation"
    /\ result.ok
    /\ result.out.decision = "penalized-majority0"
    /\ result.out.considered = 3
    /\ \E i \in 1..Len(state[keyForVehicle("1")].neighborArray) :
          LET e == state[keyForVehicle("1")].neighborArray[i]
          IN  /\ e.vote = 1
              /\ e.timestamp = txNowIso(T0)
              /\ "location" \in DOMAIN e
              /\ e.location.longitude = call.longitudeV
              /\ e.location.latitude = call.latitudeV
    /\ result.out.before = 1
    /\ state[keyForVehicle("1")].trustedScoreWromehole = 0

----------------------------------------------------------------------------
(* Specification SpecWindow: the 10-minute window of V1 cross-validation.  *)
(* Votes are dated at the transaction time, exactly 10 minutes before it,  *)
(* one millisecond earlier, one millisecond after it, or carry a timestamp *)
(* that Date.parse rejects.                                                *)

MaxWindowWeight == 3

\* the vote timestamp exactly 10 minutes before T0
EdgeTs == txNowIso(T0) - WINDOW_MS_10MIN

\* a vote timestamp after T0
LateTs == txNowIso(T0) + 1

WindowTimestamps == {NoTs, EdgeTs, OldTs, LateTs, BadTs}

WindowInit ==
    /\ state = RegisteredLedger
    /\ call = [op |-> "none"]
    /\ result = [ok |-> TRUE, error |-> "", puts |-> 0]
    /\ inserted = [v \in VinUniverse |-> <<>>]

WindowBounded ==
    WormholeWeight(state'[keyForVehicle("1")]) <= MaxWindowWeight

WindowStoreNeighborVote ==
    \E vote \in {0, 1}, timestamp \in WindowTimestamps :
        storeNeighborVote(Vehicle1Id, T0, "1", "n1", vote, 0, 0, timestamp)
        /\ WindowBounded

WindowCrossValidation ==
    \E longitudeV \in {0, 6}, timestampV \in {NoTs, OldTs, BadTs} :
        crossValidation(Vehicle1Id, T0, "1", longitudeV, 0, timestampV)
        /\ WindowBounded

WindowNext ==
    \/ WindowStoreNeighborVote
    \/ WindowCrossValidation

SpecWindow == WindowInit /\ [][WindowNext]_vars

\* the entries with a parsable timestamp t, tRef - 10 min <= t <= tRef
ParsableInWindow(v, c) ==
    SelectSeq(v.neighborArray,
              LAMBDA e : /\ e.timestamp # BadTs
                         /\ ReferenceTime(c) - 600000 <= e.timestamp
                         /\ e.timestamp <= ReferenceTime(c))

\* the decision and penalty that the window entries w alone determine
WindowOutcome(w, c) ==
    LET n1 == CountVotes(w, 1)
        n0 == CountVotes(w, 0)
        first == w[CHOOSE i \in 1..Len(w) :
                       w[i].vote = 1 /\ \A j \in 1..(i - 1) : w[j].vote # 1]
    IN  IF Len(w) = 0 THEN [decision |-> "no-votes", penalty |-> 0]
        ELSE IF n1 = n0 THEN [decision |-> "no-majority", penalty |-> 0]
        ELSE IF n0 > n1 THEN [decision |-> "penalized-majority0", penalty |-> 2]
        ELSE IF /\ "location" \in DOMAIN first
                /\ Near(first.location.longitude, c.longitudeV)
                /\ Near(first.location.latitude, c.latitudeV)
             THEN [decision |-> "no-change", penalty |-> 0]
             ELSE [decision |-> "penalized-mismatch", penalty |-> 1]

\* C12: a successful V1 cross-validation decides on the entries with a
\* parsable timestamp in [tRef - 10 min, tRef] alone: decision and score are
\* those the window entries determine, whatever other entries the log holds;
\* an empty window gives `no-votes`, equal counts `no-majority`, and in both
\* cases the ledger is unchanged.
C12_WindowOnly ==
    [][(call'.op = "crossValidation" /\ result'.ok) =>
          LET w == ParsableInWindow(state[keyForVehicle("1")], call')
              o == WindowOutcome(w, call')
              before == state[keyForVehicle("1")].trustedScoreWromehole
          IN  /\ result'.out.decision = o.decision
              /\ state'[keyForVehicle("1")].trustedScoreWromehole =
                    (IF before >= o.penalty THEN before - o.penalty ELSE 0)
              /\ Len(w) = 0 => (result'.out.decision = "no-votes" /\ state' = state)
              /\ (Len(w) > 0 /\ CountVotes(w, 1) = CountVotes(w, 0))
                 => (result'.out.decision = "no-majority" /\ state' = state)]_vars

\* the only entry in the window is a 1-vote dated exactly 10 minutes before
\* the reference time; two 0-votes, one older and one unparsable, are ignored
C12_Witness ==
    /\ call.op = "crossValidation"
    /\ result.ok
    /\ LET log == state[keyForVehicle("1")].neighborArray
       IN  /\ Len(log) = 3
           /\ \E i \in 1..3 : log[i].vote = 1
                              /\ log[i].timestamp = ReferenceTime(call) - 600000
           /\ \E i \in 1..3 : log[i].vote = 0 /\ log[i].timestamp = BadTs
           /\ \E i \in 1..3 : log[i].vote = 0 /\ log[i].timestamp # BadTs
                              /\ log[i].timestamp < ReferenceTime(call) - 600000
    /\ result.out.considered = 1
    /\ result.out.decision = "no-change"

----------------------------------------------------------------------------
(* Specification SpecV3: controller-side votes and crossValidationV3 of    *)
(* one registered vehicle, wormhole score 100 or 0 at the start.  Votes    *)
(* are dated around the 60-minute and the 24-hour marks before T0.         *)

MaxV3Weight == 3

Edge60Ts == txNowIso(T0) - WINDOW_MS_60MIN

Old60Ts == Edge60Ts - 1

\* exactly 24 hours before T0, and one millisecond earlier
DayTs == txNowIso(T0) - WINDOW_MS_24H

OlderTs == DayTs - 1

\* (vote, timestamp) arguments of storeNeighborVoteV3
V3Votes ==
    {<<0, NoTs>>, <<0, Edge60Ts>>, <<0, Old60Ts>>, <<0, DayTs>>, <<0, OlderTs>>,
     <<0, BadTs>>, <<0, LateTs>>, <<1, NoTs>>, <<1, Old60Ts>>}

V3Init ==
    /\ \E w \in {0, InitialScore} :
          state = putState(RegisteredLedger, keyForVehicle("1"),
                           SeededVehicle(w, InitialScore))
    /\ call = [op |-> "none"]
    /\ result = [ok |-> TRUE, error |-> "", puts |-> 0]
    /\ inserted = [v \in VinUniverse |-> <<>>]

V3Bounded == WormholeWeight(state'[keyForVehicle("1")]) <= MaxV3Weight

V3StoreNeighborVoteV3 ==
    \E a \in V3Votes :
        storeNeighborVoteV3(ControllerId, T0, "1", a[1], a[2]) /\ V3Bounded

V3CrossValidationV3 ==
    \E id \in {ControllerId, Vehicle1Id} :
        crossValidationV3(id, T0, "1") /\ V3Bounded

V3Next ==
    \/ V3StoreNeighborVoteV3
    \/ V3CrossValidationV3

SpecV3 == V3Init /\ [][V3Next]_vars

\* the entries with a parsable timestamp in the 60 minutes up to the
\* transaction time of call c
VotesInHour(v, c) ==
    SelectSeq(v.neighborArray,
              LAMBDA e : /\ e.timestamp # BadTs
                         /\ txNowIso(c.tx) - 3600000 <= e.timestamp
                         /\ e.timestamp <= txNowIso(c.tx))

OlderThanDay(e, c) ==
    e.timestamp # BadTs /\ txNowIso(c.tx) - e.timestamp > 86400000

\* C14: after a successful crossValidationV3 the persisted overallTrustScore
\* is the rounded mean of the five persisted sub-scores, and the vote log
\* holds exactly the previous entries that are not older than 24 hours, in
\* their order.
C14_V3OverallAndPurge ==
    [][(call'.op = "crossValidationV3" /\ result'.ok) =>
          /\ "overallTrustScore" \in DOMAIN state'[keyForVehicle("1")]
          /\ state'[keyForVehicle("1")].overallTrustScore =
                RoundedMean(state'[keyForVehicle("1")])
          /\ state'[keyForVehicle("1")].neighborArray =
                SelectSeq(state[keyForVehicle("1")].neighborArray,
                          LAMBDA e : ~OlderThanDay(e, call'))]_vars

----------------------------------------------------------------------------
(* Specification SpecBlackhole: blackhole votes, their evaluation and the  *)
(* manual reduction for one registered vehicle, from the fresh record.     *)

MaxBlackholeWeight == 3

\* reduceBy / delta arguments: absent, zero, negative, positive
ReduceArguments == {Undefined, 0, -5, 2, 100}

BlackholeWeight(v) ==
    Len(v.neighborArrayBlackholeVotes) + ScoreCost(v.trustScoreBlackhole)

BlackholeBounded ==
    BlackholeWeight(state'[keyForVehicle("1")]) <= MaxBlackholeWeight

BlackholeInit ==
    /\ state = RegisteredLedger
    /\ call = [op |-> "none"]
    /\ result = [ok |-> TRUE, error |-> "", puts |-> 0]
    /\ inserted = [v \in VinUniverse |-> <<>>]

BlackholeStoreNeighborVote ==
    \E vote \in {0, 1}, timestamp \in {NoTs, EdgeTs, OldTs, BadTs} :
        storeNeighborVoteBlackhole(Vehicle1Id, T0, "1", "n1", vote, timestamp)
        /\ BlackholeBounded

BlackholeEvaluateVotes ==
    \E reduceBy \in ReduceArguments :
        evaluateBlackholeVotes(ControllerId, T0, "1", reduceBy) /\ BlackholeBounded

BlackholeReduceScore ==
    \E delta \in ReduceArguments :
        reduceTrustScoreBlackhole(ControllerId, T0, "1", delta) /\ BlackholeBounded

BlackholeNext ==
    \/ BlackholeStoreNeighborVote
    \/ BlackholeEvaluateVotes
    \/ BlackholeReduceScore

SpecBlackhole == BlackholeInit /\ [][BlackholeNext]_vars

\* max(1, x || 1) for an absent, zero, negative or positive argument x
AtLeastOne(x) == IF x = Undefined \/ x = NaN \/ x <= 1 THEN 1 ELSE x

\* the blackhole votes with a parsable timestamp in the 10 minutes up to the
\* transaction time of call c
BlackholeVotesInWindow(v, c) ==
    SelectSeq(v.neighborArrayBlackholeVotes,
              LAMBDA e : /\ e.timestamp # BadTs
                         /\ txNowIso(c.tx) - 600000 <= e.timestamp
                         /\ e.timestamp <= txNowIso(c.tx))

\* C15: evaluateBlackholeVotes lowers the blackhole score to
\* max(0, before - max(1, reduceBy || 1)) with decision `penalized-majority0`
\* and a recomputed persisted overall score when the 0-votes of the window
\* outnumber the 1-votes, and does not write the record otherwise
\* (`majority1-no-penalty`, `no-majority`, or an empty window).
C15_EvaluateBlackhole ==
    [][(call'.op = "evaluateBlackholeVotes" /\ result'.ok) =>
          LET w == BlackholeVotesInWindow(state[keyForVehicle("1")], call')
              before == state[keyForVehicle("1")].trustScoreBlackhole
              amount == AtLeastOne(call'.reduceBy)
          IN  IF CountVotes(w, 0) > CountVotes(w, 1)
              THEN /\ result'.out.decision = "penalized-majority0"
                   /\ state'[keyForVehicle("1")].trustScoreBlackhole =
                         (IF before >= amount THEN before - amount ELSE 0)
                   /\ "overallTrustScore" \in DOMAIN state'[keyForVehicle("1")]
                   /\ state'[keyForVehicle("1")].overallTrustScore =
                         RoundedMean(state'[keyForVehicle("1")])
              ELSE /\ state' = state
                   /\ result'.puts = 0
                   /\ CountVotes(w, 1) > CountVotes(w, 0)
                      => result'.out.decision = "majority1-no-penalty"
                   /\ (Len(w) > 0 /\ CountVotes(w, 1) = CountVotes(w, 0))
                      => result'.out.decision = "no-majority"]_vars

\* C16: a successful reduceBlackholeScore lowers the blackhole score to
\* max(0, before - max(1, delta || 1)) for every delta argument and persists
\* the rounded mean of the five sub-scores as overallTrustScore in the same
\* write.
C16_ReduceBlackhole ==
    [][(call'.op = "reduceBlackholeScore" /\ result'.ok) =>
          LET before == state[keyForVehicle("1")].trustScoreBlackhole
              amount == AtLeastOne(call'.delta)
          IN  /\ state'[keyForVehicle("1")].trustScoreBlackhole =
                    (IF before >= amount THEN before - amount ELSE 0)
              /\ "overallTrustScore" \in DOMAIN state'[keyForVehicle("1")]
              /\ state'[keyForVehicle("1")].overallTrustScore =
                    RoundedMean(state'[keyForVehicle("1")])
              /\ result'.puts = 1]_vars

----------------------------------------------------------------------------
(* Specification SpecPoison: routing-data votes and crossValidationPoison  *)
(* of one registered vehicle; the poison score starts at 100 (fresh        *)
(* record), 1 or 0 (after 99 or 100 penalised calls and a purging one).    *)

MaxPoisonWeight == 3

\* RdA with a link quality at the edge of the tolerance
RdC == [RdA EXCEPT !.LinkQuality = 95]

\* (vote, routingData, timestamp) arguments of storePoisonNeighborRoutingVote
PoisonVotes ==
    {<<1, RdA, NoTs>>, <<1, RdB, NoTs>>, <<1, RdA, OldTs>>, <<0, RdA, NoTs>>,
     <<0, RdA, EdgeTs>>, <<0, RdA, DayTs>>, <<0, RdA, OlderTs>>, <<0, RdA, BadTs>>}

PoisonWeight(v) ==
    Len(v.neighborArrayRoutingData)
    + (IF v.trustScorePoison >= 50 THEN 100 - v.trustScorePoison ELSE 0)

PoisonBounded == PoisonWeight(state'[keyForVehicle("1")]) <= MaxPoisonWeight

PoisonInit ==
    /\ \E p \in {0, 1, InitialScore} :
          state = putState(RegisteredLedger, keyForVehicle("1"),
                           SeededVehicle(InitialScore, p))
    /\ call = [op |-> "none"]
    /\ result = [ok |-> TRUE, error |-> "", puts |-> 0]
    /\ inserted = [v \in VinUniverse |-> <<>>]

PoisonStoreNeighborRoutingVote ==
    \E a \in PoisonVotes :
        storeNeighborRoutingVote(Vehicle1Id, T0, "1", "n1", a[1], a[2], a[3])
        /\ PoisonBounded

PoisonCrossValidation ==
    \E routingDataV \in {RdA, RdC, BadJson}, timestampV \in {NoTs, OldTs} :
        crossValidationPoison(Vehicle1Id, T0, "1", routingDataV, timestampV)
        /\ PoisonBounded

PoisonNext ==
    \/ PoisonStoreNeighborRoutingVote
    \/ PoisonCrossValidation

SpecPoison == PoisonInit /\ [][PoisonNext]_vars

\* the poison votes with a parsable timestamp in [tRef - 10 min, tRef]
PoisonVotesInWindow(v, c) ==
    SelectSeq(v.neighborArrayRoutingData,
              LAMBDA e : /\ e.timestamp # BadTs
                         /\ ReferenceTime(c) - 600000 <= e.timestamp
                         /\ e.timestamp <= ReferenceTime(c))

\* routing data a and the reported routing data b agree: identifiers, path
\* and hop count equal, metrics within 0.05 / 1.0 / 0.5
RoutingAgrees(a, b) ==
    /\ b # BadJson
    /\ a.DestinationID = b.DestinationID
    /\ a.NextHopID = b.NextHopID
    /\ a.Path = b.Path
    /\ a.HopCount = b.HopCount
    /\ Near(a.LinkQuality, b.LinkQuality)
    /\ a.Latency - b.Latency <= 100 /\ b.Latency - a.Latency <= 100
    /\ a.Bandwidth - b.Bandwidth <= 50 /\ b.Bandwidth - a.Bandwidth <= 50

\* the decision and penalty of the claim for the window entries w
PoisonOutcome(w, c) ==
    LET n1 == CountVotes(w, 1)
        n0 == CountVotes(w, 0)
        first == w[CHOOSE i \in 1..Len(w) :
                       w[i].vote = 1 /\ \A j \in 1..(i - 1) : w[j].vote # 1]
    IN  IF Len(w) = 0 THEN [decision |-> "no-votes", penalty |-> 0]
        ELSE IF n1 = n0 THEN [decision |-> "no-majority", penalty |-> 0]
        ELSE IF n0 > n1 THEN [decision |-> "penalized-majority0", penalty |-> 2]
        ELSE IF RoutingAgrees(first.routingData, c.routingDataV)
             THEN [decision |-> "majority1-match-no-penalty", penalty |-> 0]
             ELSE [decision |-> "penalized-mismatch", penalty |-> 1]

\* C17: a successful crossValidationPoison decides on the votes in
\* [tRef - 10 min, tRef]: 1-majority and match - score unchanged,
\* `majority1-match-no-penalty`; 1-majority and mismatch - max(0, before - 1),
\* `penalized-mismatch`; 0-majority - max(0, before - 2),
\* `penalized-majority0`; tie - `no-majority`; empty - `no-votes`.
C17_PoisonDecision ==
    [][(call'.op = "crossValidationPoison" /\ result'.ok) =>
          LET o == PoisonOutcome(PoisonVotesInWindow(state[keyForVehicle("1")], call'),
                                 call')
              before == state[keyForVehicle("1")].trustScorePoison
          IN  /\ result'.out.decision = o.decision
              /\ state'[keyForVehicle("1")].trustScorePoison =
                    (IF before >= o.penalty THEN before - o.penalty ELSE 0)]_vars

\* two 1-votes outnumber a 0-vote and the first one's routing data matches
\* the report at the edge of the link-quality tolerance
C17_Witness ==
    /\ call.op = "crossValidationPoison"
    /\ result.ok
    /\ result.out.considered = 3
    /\ call.routingDataV = RdC
    /\ CountVotes(PoisonVotesInWindow(state[keyForVehicle("1")], call), 0) = 1
    /\ result.out.decision = "majority1-match-no-penalty"

\* C18: a successful crossValidationPoison leaves in the persisted poison
\* log exactly the previous entries that are not older than 24 hours
\* relative to tRef, in their order, whatever the decision.
C18_PoisonPurge ==
    [][(call'.op = "crossValidationPoison" /\ result'.ok) =>
          state'[keyForVehicle("1")].neighborArrayRoutingData =
             SelectSeq(state[keyForVehicle("1")].neighborArrayRoutingData,
                       LAMBDA e : ~(/\ e.timestamp # BadTs
                                    /\ ReferenceTime(call') - e.timestamp
                                          > 86400000))]_vars

----------------------------------------------------------------------------
(* Specification SpecReplay: the flow-id log of one registered vehicle.    *)
(* Transactions carry the time T0, exactly 24 hours later, or 24 hours and *)
(* one millisecond later; an entry is dated by its transaction or by the   *)
(* caller (one millisecond after T0, or a string Date.parse rejects);      *)
(* transaction times do not go backwards.                                  *)

MaxFlowEntries == 2

TDay == [seconds |-> T0.seconds + 86400, nanos |-> 0]

TPast == [seconds |-> T0.seconds + 86400, nanos |-> 1000000]

ReplayTimes == {T0, TDay, TPast}

ReplayBounded == Len(FlowLog(state'[keyForVehicle("1")])) <= MaxFlowEntries

ReplayInit ==
    /\ state = RegisteredLedger
    /\ call = [op |-> "none"]
    /\ result = [ok |-> TRUE, error |-> "", puts |-> 0]
    /\ inserted = [v \in VinUniverse |-> <<>>]

\* transaction times do not go backwards
NotBefore(tx) == IF call.op = "none" THEN TRUE ELSE txNowIso(tx) >= txNowIso(call.tx)

ReplayStoreFlowId ==
    \E tx \in ReplayTimes, flowId \in {"f1", "f2"}, timestamp \in {NoTs, LateTs, BadTs} :
        /\ NotBefore(tx)
        /\ storeFlowIdReplay(Vehicle1Id, tx, "1", flowId, timestamp)
        /\ ReplayBounded

ReplayCheckFlowId ==
    \E tx \in ReplayTimes, flowId \in {"f1", "f2"} :
        /\ NotBefore(tx)
        /\ checkFlowIdReplay(Vehicle1Id, tx, "1", flowId)
        /\ ReplayBounded

ReplayResetTrustScores ==
    \E tx \in ReplayTimes :
        /\ NotBefore(tx)
        /\ resetTrustScores(ControllerId, tx, "1")
        /\ ReplayBounded

ReplayNext ==
    \/ ReplayStoreFlowId
    \/ ReplayCheckFlowId
    \/ ReplayResetTrustScores

SpecReplay == ReplayInit /\ [][ReplayNext]_vars

\* milliseconds from the timestamp of entry e to the transaction time of c
AgeAt(e, c) == txNowIso(c.tx) - e.timestamp

\* the step is a checkFlowIdReplay at whose time entry e is older than 24 h
ExpiresIn(e, c, r) ==
    /\ c.op = "checkFlowIdReplay"
    /\ r.ok
    /\ e.timestamp # BadTs
    /\ AgeAt(e, c) > 86400000

\* C19: a stored flow id is reported by every check made within 24 hours
\* after its entry's timestamp, no step other than the expiry of an entry
\* removes it from the log, and a check made more than 24 hours after the
\* only entry's timestamp reports exists = false and empties the log.
C19_ReplayLog ==
    [][LET log == FlowLog(state[keyForVehicle("1")])
           log2 == FlowLog(state'[keyForVehicle("1")])
       IN  /\ (call'.op = "checkFlowIdReplay" /\ result'.ok) =>
                 /\ (\E i \in 1..Len(log) :
                        /\ log[i].flowId = call'.flowId
                        /\ log[i].timestamp # BadTs
                        /\ AgeAt(log[i], call') >= 0
                        /\ AgeAt(log[i], call') <= 86400000)
                    => result'.out.exists
                 /\ (Len(log) = 1 /\ ExpiresIn(log[1], call', result'))
                    => (~result'.out.exists /\ log2 = <<>>)
           /\ \A i \in 1..Len(log) :
                 \/ \E j \in 1..Len(log2) : log2[j] = log[i]
                 \/ ExpiresIn(log[i], call', result')]_vars

----------------------------------------------------------------------------
(* Specification SpecReset: resetTrustScores on a ledger with two          *)
(* registered vehicles.  Vehicle "1" starts fresh or with the wormhole     *)
(* and poison scores lowered to 1 and 0; votes of the three kinds,         *)
(* locations and flow ids are stored on vehicle "1", wormhole votes also   *)
(* on vehicle "2", and the controller lowers the blackhole score of either *)
(* vehicle before a reset is called.                                       *)

MaxResetWeight == 4

TwoVehicleLedger(w, p) ==
    putState(putState(putState(RegisteredLedger, keyForVehicle("1"),
                               SeededVehicle(w, p)),
                      keyForVinAuthority("2"), AuthorityRecord("2", T0)),
             keyForVehicle("2"), NewVehicle("2", "pk2", "", T0))

ResetWeight(v) ==
    Len(v.neighborArray) + Len(v.neighborArrayBlackholeVotes)
    + Len(v.neighborArrayRoutingData) + Len(v.locations) + Len(FlowLog(v))
    + (100 - v.trustScoreBlackhole)

ResetBounded ==
    ResetWeight(state'[keyForVehicle("1")])
    + ResetWeight(state'[keyForVehicle("2")]) <= MaxResetWeight

ResetInit ==
    /\ \E s \in {<<InitialScore, InitialScore>>, <<1, 0>>} :
          state = TwoVehicleLedger(s[1], s[2])
    /\ call = [op |-> "none"]
    /\ result = [ok |-> TRUE, error |-> "", puts |-> 0]
    /\ inserted = [v \in VinUniverse |-> <<>>]

ResetStoreNeighborVote ==
    \E vin \in CoreVins :
        storeNeighborVote(Vehicle1Id, T0, vin, "n1", 1, 0, 0, NoTs)
        /\ ResetBounded

ResetStoreNeighborVoteBlackhole ==
    storeNeighborVoteBlackhole(Vehicle1Id, T0, "1", "n1", 0, NoTs)
    /\ ResetBounded

ResetStoreNeighborRoutingVote ==
    storeNeighborRoutingVote(Vehicle1Id, T0, "1", "n1", 1, RdA, NoTs)
    /\ ResetBounded

ResetStoreLocation ==
    storeLocation(ControllerId, T0, "1", 1, 2, NoTs) /\ ResetBounded

ResetStoreFlowId ==
    storeFlowIdReplay(Vehicle1Id, T0, "1", "f1", NoTs) /\ ResetBounded

ResetReduceScore ==
    \E vin \in CoreVins :
        reduceTrustScoreBlackhole(ControllerId, T0, vin, 1) /\ ResetBounded

ResetResetTrustScores ==
    \E id \in {ControllerId, Vehicle1Id}, vin \in {"1", "2", "3"} :
        resetTrustScores(id, T0, vin) /\ ResetBounded

ResetNext ==
    \/ ResetStoreNeighborVote
    \/ ResetStoreNeighborVoteBlackhole
    \/ ResetStoreNeighborRoutingVote
    \/ ResetStoreLocation
    \/ ResetStoreFlowId
    \/ ResetReduceScore
    \/ ResetResetTrustScores

SpecReset == ResetInit /\ [][ResetNext]_vars

\* the fields resetTrustScores sets to 100 and the fields it empties
SubScoreFields ==
    {"trustedScoreSybil", "trustedScoreWromehole", "trustScoreBlackhole",
     "trustScorePoison", "trustScoreReplay"}

VoteLogFields ==
    {"neighborArray", "neighborArrayBlackholeVotes", "neighborArrayRoutingData"}

\* C20: a successful resetTrustScores(vin) sets the five sub-scores of the
\* record to 100 and empties its wormhole, blackhole and poison vote logs;
\* the flow-id log, the location history, VIN, publicKey,
\* registrationStatus, createdAt and every other field of the record, and
\* every other record of the ledger, are unchanged.
C20_ResetFrame ==
    [][(call'.op = "resetTrustScores" /\ result'.ok) =>
          LET k == keyForVehicle(call'.vin)
              v == state[k]
              v2 == state'[k]
          IN  /\ DOMAIN state' = DOMAIN state
              /\ \A o \in DOMAIN state \ {k} : state'[o] = state[o]
              /\ DOMAIN v2 = DOMAIN v
              /\ \A f \in SubScoreFields : v2[f] = 100
              /\ \A f \in VoteLogFields : v2[f] = <<>>
              /\ \A f \in DOMAIN v \ (SubScoreFields \cup VoteLogFields) :
                    v2[f] = v[f]
              /\ FlowLog(v2) = FlowLog(v)]_vars

\* a reset has just succeeded on vehicle "1", whose scores had been lowered
\* (the persisted overall score is still below 100) and whose flow-id log
\* and location history are not empty, next to a vehicle "2" that holds
\* votes of its own
C20_Witness ==
    LET v == state[keyForVehicle("1")]
        o == state[keyForVehicle("2")]
    IN  /\ call.op = "resetTrustScores"
        /\ call.vin = "1"
        /\ result.ok
        /\ "overallTrustScore" \in DOMAIN v
        /\ v.overallTrustScore < 100
        /\ \A f \in SubScoreFields : v[f] = 100
        /\ Len(FlowLog(v)) > 0
        /\ Len(v.locations) > 0
        /\ Len(o.neighborArray) > 0
        /\ o.trustScoreBlackhole < 100

----------------------------------------------------------------------------
(* Specification SpecAuthority: the trusted-authority registry.  VINs are  *)
(* stored one by one and by range at the time T0 or a day later, vehicles  *)
(* are registered, located, read and reset, and the registry is listed.    *)

MaxAuthLocations == 1

\* (start, end) arguments of storeVINRange
AuthRanges ==
    {<<1, 2>>, <<2, 3>>, <<1, 3>>, <<3, 1>>, <<0, 2>>, <<-1, 2>>,
     <<1, NaN>>, <<1, Undefined>>, <<TwoPow53, TwoPow53>>}

AuthBounded ==
    \A vin \in CoreVins :
        hasState(state', keyForVehicle(vin))
        => Len(state'[keyForVehicle(vin)].locations) <= MaxAuthLocations

AuthInit ==
    /\ state = << >>
    /\ call = [op |-> "none"]
    /\ result = [ok |-> TRUE, error |-> "", puts |-> 0]
    /\ inserted = [v \in VinUniverse |-> <<>>]

AuthStoreVIN ==
    \E id \in {TrustedAuthorityId, ControllerId}, tx \in {T0, TDay},
       vin \in {"1", "2", "10", ""} :
        storeVIN(id, tx, vin) /\ AuthBounded

AuthStoreVINRange ==
    \E tx \in {T0, TDay}, r \in AuthRanges :
        storeVINRange(TrustedAuthorityId, tx, r[1], r[2]) /\ AuthBounded

AuthStoreVINRangeDenied ==
    \E id \in {ControllerId, Vehicle1Id}, r \in {<<1, 2>>, <<0, 2>>} :
        storeVINRange(id, T0, r[1], r[2]) /\ AuthBounded

AuthRegisterVehicle ==
    \E vin \in CoreVins :
        registerVehicle(ControllerId, TDay, vin, "pk", "") /\ AuthBounded

AuthStoreLocation ==
    storeLocation(ControllerId, TDay, "1", 1, 2, NoTs) /\ AuthBounded

AuthResetTrustScores ==
    \E vin \in CoreVins :
        resetTrustScores(TrustedAuthorityId, TDay, vin) /\ AuthBounded

AuthListVINStatuses ==
    \E id \in {TrustedAuthorityId, ControllerId, Vehicle1Id} :
        listVINStatuses(id, TDay) /\ AuthBounded

AuthNext ==
    \/ AuthStoreVIN
    \/ AuthStoreVINRange
    \/ AuthStoreVINRangeDenied
    \/ AuthRegisterVehicle
    \/ AuthStoreLocation
    \/ AuthResetTrustScores
    \/ AuthListVINStatuses

SpecAuthority == AuthInit /\ [][AuthNext]_vars

\* the keys of the AuthorityRecords of ledger st
AuthorityKeys(st) == {k \in DOMAIN st : k[1] = "vinreg"}

\* C21: an AuthorityRecord, once created, is in every later state with the
\* createdAt and issuer it was created with; a successful storeVIN of a
\* stored VIN writes nothing, and a successful storeVINRange writes only
\* the VINs it reports as added, none of which was stored before.
C21_AuthorityImmutable ==
    [][/\ \A k \in AuthorityKeys(state) :
              k \in DOMAIN state' /\ state'[k] = state[k]
       /\ (call'.op = "storeVIN" /\ result'.ok
              /\ hasState(state, keyForVinAuthority(call'.vin)))
           => (result'.puts = 0 /\ state' = state)
       /\ (call'.op = "storeVINRange" /\ result'.ok)
           => /\ result'.puts = result'.out.addedCount
              /\ \A i \in 1..Len(result'.out.added) :
                    ~hasState(state, keyForVinAuthority(result'.out.added[i]))
      ]_vars

\* a storeVIN made a day after the VIN was stored has succeeded, and the
\* record still carries the earlier creation time
C21_Witness ==
    /\ call.op = "storeVIN"
    /\ call.vin = "1"
    /\ call.tx = TDay
    /\ result.ok
    /\ result.out.already
    /\ state[keyForVinAuthority("1")].createdAt = txNowIso(T0)
    /\ state[keyForVinAuthority("1")].issuer = "trustedAuthority"

\* start and end are positive integers with start <= end
ValidRange(start, end) ==
    /\ start \notin {NaN, Undefined, Null}
    /\ end \notin {NaN, Undefined, Null}
    /\ start >= 1
    /\ start <= end

\* the VINs start..end in ascending order
RangeVins(start, end) == [i \in 1..(end - start + 1) |-> VinString(start + i - 1)]

\* C22: storeVINRange(start, end) called by the trusted authority with
\* positive integers start <= end succeeds, and afterwards every VIN of
\* start..end has an AuthorityRecord; `added` lists exactly the VINs of
\* the range that had none before, `skipped` exactly those that had one,
\* addedCount + skippedCount = end - start + 1, and every record outside
\* the range is as before.  With any other start or end it fails and
\* nothing is written.
C22_StoreVINRange ==
    [][(call'.op = "storeVINRange" /\ getClientRole(call'.id) = "trustedauthority")
       => IF ValidRange(call'.start, call'.end)
          THEN LET vins == RangeVins(call'.start, call'.end)
                   absent(v) == ~hasState(state, keyForVinAuthority(v))
                   present(v) == hasState(state, keyForVinAuthority(v))
                   out == result'.out
               IN  /\ result'.ok
                   /\ \A i \in 1..Len(vins) :
                         hasState(state', keyForVinAuthority(vins[i]))
                   /\ out.added = SelectSeq(vins, absent)
                   /\ out.skipped = SelectSeq(vins, present)
                   /\ out.addedCount = Len(out.added)
                   /\ out.skippedCount = Len(out.skipped)
                   /\ out.addedCount + out.skippedCount
                         = call'.end - call'.start + 1
                   /\ \A k \in DOMAIN state' :
                         (\A i \in 1..Len(vins) : k # keyForVinAuthority(vins[i]))
                         => (k \in DOMAIN state /\ state'[k] = state[k])
                   /\ \A k \in DOMAIN state :
                         k \in DOMAIN state' /\ state'[k] = state[k]
          ELSE /\ ~result'.ok
               /\ result'.puts = 0
               /\ state' = state]_vars

\* position of the key of VIN v among the keys that occur
KeyRank(v) == CHOOSE i \in 1..Len(KeyOrder) : KeyOrder[i] = v

\* C25: a successful listVINStatuses writes nothing and returns one entry
\* for each AuthorityRecord of the ledger and no other, in ascending key
\* order, with the record's creation time, and with registered = TRUE
\* exactly when the ledger holds a VehicleRecord for that VIN.
C25_ListVINStatuses ==
    [][(call'.op = "listVINStatuses" /\ result'.ok) =>
          LET out == result'.out
          IN  /\ state' = state
              /\ result'.puts = 0
              /\ Len(out) = Cardinality(AuthorityKeys(state))
              /\ \A k \in AuthorityKeys(state) :
                    \E i \in 1..Len(out) : out[i].vin = k[2]
              /\ \A i \in 1..Len(out) :
                    /\ hasState(state, keyForVinAuthority(out[i].vin))
                    /\ out[i].storedAt
                          = state[keyForVinAuthority(out[i].vin)].createdAt
                    /\ out[i].registered
                          <=> hasState(state, keyForVehicle(out[i].vin))
              /\ \A i \in 1..Len(out), j \in 1..Len(out) :
                    i < j => KeyRank(out[i].vin) < KeyRank(out[j].vin)]_vars

\* the list has just been returned for a ledger with VINs 1, 10 and 2, of
\* which 1 is registered and 10 is not; the key of 10 sorts before that of 2
C25_Witness ==
    /\ call.op = "listVINStatuses"
    /\ result.ok
    /\ Len(result.out) >= 3
    /\ result.out[1].vin = "1"
    /\ result.out[1].registered
    /\ result.out[2].vin = "10"
    /\ ~result.out[2].registered
    /\ result.out[3].vin = "2"
    /\ result.out[1].storedAt # result.out[3].storedAt

----------------------------------------------------------------------------
(* Specification SpecFailure: every chaincode function called with proper  *)
(* and improper callers and arguments (empty VIN, absent vote, empty       *)
(* public key, unreadable timestampV, unknown VIN) on a ledger where       *)
(* VIN 1 is stored and registered.                                         *)

MaxFailWeight == 3

FailIds == {TrustedAuthorityId, ControllerId, Vehicle1Id}

FailVins == {"", "1", "2"}

FailBounded == Weight(state') <= MaxFailWeight

FailInit ==
    /\ state = RegisteredLedger
    /\ call = [op |-> "none"]
    /\ result = [ok |-> TRUE, error |-> "", puts |-> 0]
    /\ inserted = [v \in VinUniverse |-> <<>>]

FailStoreVIN ==
    \E id \in FailIds, vin \in FailVins : storeVIN(id, T0, vin) /\ FailBounded

FailStoreVINRange ==
    \E id \in FailIds, r \in {<<1, 2>>, <<2, 1>>, <<0, 1>>, <<NaN, 1>>} :
        storeVINRange(id, T0, r[1], r[2]) /\ FailBounded

FailRegisterVehicle ==
    \E id \in FailIds, vin \in FailVins, publicKey \in {"", "pk"} :
        registerVehicle(id, T0, vin, publicKey, "") /\ FailBounded

FailGetVehicle ==
    \E id \in FailIds, vin \in FailVins : getVehicle(id, T0, vin) /\ FailBounded

FailResetTrustScores ==
    \E id \in FailIds, vin \in FailVins :
        resetTrustScores(id, T0, vin) /\ FailBounded

FailStoreLocation ==
    \E id \in FailIds, vin \in FailVins :
        storeLocation(id, T0, vin, 1, 2, NoTs) /\ FailBounded

FailListVINStatuses ==
    \E id \in FailIds : listVINStatuses(id, T0) /\ FailBounded

FailStoreNeighborVote ==
    \E id \in FailIds, vin \in FailVins, a \in {<<"n1", 0>>, <<"", 0>>, <<"n1", Undefined>>} :
        storeNeighborVote(id, T0, vin, a[1], a[2], 0, 0, NoTs) /\ FailBounded

FailCrossValidation ==
    \E id \in FailIds, vin \in FailVins, timestampV \in {NoTs, BadTs} :
        crossValidation(id, T0, vin, 0, 0, timestampV) /\ FailBounded

FailStoreNeighborVoteV3 ==
    \E id \in FailIds, vin \in FailVins, vote \in {0, Undefined} :
        storeNeighborVoteV3(id, T0, vin, vote, NoTs) /\ FailBounded

FailCrossValidationV3 ==
    \E id \in FailIds, vin \in FailVins :
        crossValidationV3(id, T0, vin) /\ FailBounded

FailStoreBlackholeNeighborVote ==
    \E id \in FailIds, vin \in FailVins, a \in {<<"n1", 0>>, <<"", 0>>, <<"n1", Undefined>>} :
        storeNeighborVoteBlackhole(id, T0, vin, a[1], a[2], NoTs) /\ FailBounded

FailReduceBlackholeScore ==
    \E id \in FailIds, vin \in FailVins :
        reduceTrustScoreBlackhole(id, T0, vin, 100) /\ FailBounded

FailEvaluateBlackholeVotes ==
    \E id \in FailIds, vin \in FailVins :
        evaluateBlackholeVotes(id, T0, vin, 100) /\ FailBounded

FailStorePoisonNeighborRoutingVote ==
    \E id \in FailIds, vin \in FailVins,
       a \in {<<"n1", 0, OlderTs>>, <<"", 0, NoTs>>, <<"n1", Undefined, NoTs>>} :
        storeNeighborRoutingVote(id, T0, vin, a[1], a[2], RdA, a[3])
        /\ FailBounded

FailCrossValidationPoison ==
    \E id \in FailIds, vin \in FailVins, timestampV \in {NoTs, BadTs} :
        crossValidationPoison(id, T0, vin, RdA, timestampV) /\ FailBounded

FailStoreFlowIdReplay ==
    \E id \in FailIds, vin \in FailVins, flowId \in {"", "f1"} :
        storeFlowIdReplay(id, T0, vin, flowId, NoTs) /\ FailBounded

FailCheckFlowIdReplay ==
    \E id \in FailIds, vin \in FailVins, flowId \in {"", "f1"} :
        checkFlowIdReplay(id, T0, vin, flowId) /\ FailBounded

FailNext ==
    \/ FailStoreVIN
    \/ FailStoreVINRange
    \/ FailRegisterVehicle
    \/ FailGetVehicle
    \/ FailResetTrustScores
    \/ FailStoreLocation
    \/ FailListVINStatuses
    \/ FailStoreNeighborVote
    \/ FailCrossValidation
    \/ FailStoreNeighborVoteV3
    \/ FailCrossValidationV3
    \/ FailStoreBlackholeNeighborVote
    \/ FailReduceBlackholeScore
    \/ FailEvaluateBlackholeVotes
    \/ FailStorePoisonNeighborRoutingVote
    \/ FailCrossValidationPoison
    \/ FailStoreFlowIdReplay
    \/ FailCheckFlowIdReplay

SpecFailure == FailInit /\ [][FailNext]_vars

\* the errors raised by the argument, authorization and lookup checks
CheckErrors ==
    {"AccessDenied", "NotOwner", "VinRequired", "ArgsRequired", "InvalidRange",
     "InvalidTimestamp", "AuthorityNotFound", "AlreadyRegistered", "NotFound"}

\* C23: a call that fails leaves the ledger as it was, and it fails
\* before its first write: no putState precedes a failed authorization,
\* argument, timestamp or lookup check in any function.
C23_FailureWritesNothing ==
    [][~result'.ok =>
          /\ state' = state
          /\ inserted' = inserted
          /\ result'.error \in CheckErrors
          /\ result'.puts = 0]_vars

\* crossValidationPoison has just been refused for an unreadable
\* timestampV on a record whose poison log holds a vote older than 24 h,
\* which a successful call would have purged
C23_Witness ==
    /\ call.op = "crossValidationPoison"
    /\ ~result.ok
    /\ result.error = "InvalidTimestamp"
    /\ Len(state[keyForVehicle("1")].neighborArrayRoutingData) > 0
    /\ state[keyForVehicle("1")].neighborArrayRoutingData[1].timestamp = OlderTs

----------------------------------------------------------------------------
(* Specification SpecLogs: the four logs of one registered vehicle under   *)
(* every function that reads or writes a vehicle record.  Entries are      *)
(* dated by the transaction or more than 24 hours before it.               *)

MaxLogWeight == 3

LogBounded == VehicleWeight(state'[keyForVehicle("1")]) <= MaxLogWeight

LogInit ==
    /\ state = RegisteredLedger
    /\ call = [op |-> "none"]
    /\ result = [ok |-> TRUE, error |-> "", puts |-> 0]
    /\ inserted = [v \in VinUniverse |-> <<>>]

LogStoreNeighborVote ==
    \E timestamp \in {NoTs, OlderTs} :
        storeNeighborVote(Vehicle1Id, T0, "1", "n1", 1, 0, 0, timestamp)
        /\ LogBounded

LogStoreNeighborVoteV3 ==
    \E timestamp \in {NoTs, OlderTs} :
        storeNeighborVoteV3(ControllerId, T0, "1", 0, timestamp) /\ LogBounded

LogStoreBlackholeNeighborVote ==
    \E timestamp \in {NoTs, OlderTs} :
        storeNeighborVoteBlackhole(Vehicle1Id, T0, "1", "n1", 0, timestamp)
        /\ LogBounded

LogStorePoisonNeighborRoutingVote ==
    \E timestamp \in {NoTs, OlderTs} :
        storeNeighborRoutingVote(Vehicle1Id, T0, "1", "n1", 0, RdA, timestamp)
        /\ LogBounded

LogStoreFlowIdReplay ==
    \E timestamp \in {NoTs, OlderTs} :
        storeFlowIdReplay(Vehicle1Id, T0, "1", "f1", timestamp) /\ LogBounded

LogCrossValidation ==
    crossValidation(Vehicle1Id, T0, "1", 6, 0, NoTs) /\ LogBounded

LogCrossValidationV3 ==
    crossValidationV3(ControllerId, T0, "1") /\ LogBounded

LogEvaluateBlackholeVotes ==
    evaluateBlackholeVotes(ControllerId, T0, "1", Undefined) /\ LogBounded

LogReduceBlackholeScore ==
    reduceTrustScoreBlackhole(ControllerId, T0, "1", Undefined) /\ LogBounded

LogCrossValidationPoison ==
    crossValidationPoison(Vehicle1Id, T0, "1", RdA, NoTs) /\ LogBounded

LogCheckFlowIdReplay ==
    checkFlowIdReplay(Vehicle1Id, T0, "1", "f1") /\ LogBounded

LogResetTrustScores ==
    resetTrustScores(ControllerId, T0, "1") /\ LogBounded

LogStoreLocation ==
    storeLocation(Vehicle1Id, T0, "1", 1, 2, NoTs) /\ LogBounded

LogGetVehicle ==
    getVehicle(Vehicle1Id, T0, "1") /\ LogBounded

LogNext ==
    \/ LogStoreNeighborVote
    \/ LogStoreNeighborVoteV3
    \/ LogStoreBlackholeNeighborVote
    \/ LogStorePoisonNeighborRoutingVote
    \/ LogStoreFlowIdReplay
    \/ LogCrossValidation
    \/ LogCrossValidationV3
    \/ LogEvaluateBlackholeVotes
    \/ LogReduceBlackholeScore
    \/ LogCrossValidationPoison
    \/ LogCheckFlowIdReplay
    \/ LogResetTrustScores
    \/ LogStoreLocation
    \/ LogGetVehicle

SpecLogs == LogInit /\ [][LogNext]_vars

\* the four logs of a vehicle record, by name
LogNames == {"wormhole", "blackhole", "poison", "flow"}

LogOf(v, n) ==
    CASE n = "wormhole" -> v.neighborArray
      [] n = "blackhole" -> v.neighborArrayBlackholeVotes
      [] n = "poison" -> v.neighborArrayRoutingData
      [] n = "flow" -> FlowLog(v)

\* the functions that append to log n, and the one that prunes it
StoresOf(n) ==
    CASE n = "wormhole" -> {"storeNeighborVote", "storeNeighborVoteV3"}
      [] n = "blackhole" -> {"storeBlackholeNeighborVote"}
      [] n = "poison" -> {"storePoisonNeighborRoutingVote"}
      [] n = "flow" -> {"storeFlowIdReplay"}

PrunersOf(n) ==
    CASE n = "wormhole" -> {"crossValidationV3"}
      [] n = "blackhole" -> {}
      [] n = "poison" -> {"crossValidationPoison"}
      [] n = "flow" -> {"checkFlowIdReplay"}

\* log b is log a with entries appended
Extends(a, b) == Len(b) >= Len(a) /\ SubSeq(b, 1, Len(a)) = a

----------------------------------------------------------------------------
(* Specification SpecMatch: routingDataMatches applied to every pair of    *)
(* routing-data objects that differ from RdA in one field: an identifier,  *)
(* the path, the hop count, a metric at, just inside or just outside its   *)
(* tolerance, the status, the timestamp; and the empty object.             *)

DropField(r, f) == [k \in (DOMAIN r) \ {f} |-> r[k]]

RoutingInputs ==
    {RdA, RdB, RdC, EmptyObject,
     [RdA EXCEPT !.DestinationID = "E"],
     [RdA EXCEPT !.Path = <<"b", "a">>],
     [RdA EXCEPT !.Path = <<"a">>],
     DropField(RdA, "Path"),
     [RdA EXCEPT !.HopCount = 0],
     [RdA EXCEPT !.HopCount = NaN],
     DropField(RdA, "HopCount"),
     [RdA EXCEPT !.LinkQuality = 96],
     [RdA EXCEPT !.LinkQuality = NaN],
     [RdA EXCEPT !.Latency = 1100],
     [RdA EXCEPT !.Latency = 1101],
     DropField(RdA, "Latency"),
     [RdA EXCEPT !.Bandwidth = 450],
     [RdA EXCEPT !.Bandwidth = 449],
     SetField(RdA, "Status", "active"),
     SetField(RdA, "Status", "Active"),
     SetField(RdA, "Status", "down"),
     SetField(RdA, "Status", ""),
     SetField(RdA, "Timestamp", OldTs)}

MatchInit ==
    /\ state = << >>
    /\ call = [op |-> "none"]
    /\ result = [ok |-> TRUE, error |-> "", puts |-> 0]
    /\ inserted = [v \in VinUniverse |-> <<>>]

MatchApply ==
    \E a \in RoutingInputs, b \in RoutingInputs :
        /\ call' = [op |-> "routingDataMatches", a |-> a, b |-> b]
        /\ result' = [ok |-> TRUE, error |-> "", puts |-> 0,
                      out |-> routingDataMatches(a, b)]
        /\ UNCHANGED <<state, inserted>>

MatchNext == MatchApply

SpecMatch == MatchInit /\ [][MatchNext]_vars

\* the value of field f as a string, `undefined` when the field is absent
FieldText(r, f) == IF f \in DOMAIN r THEN r[f] ELSE "undefined"

\* the hop count with every non-numeric value read as 0
HopCountOf(r) ==
    IF "HopCount" \in DOMAIN r /\ r.HopCount \notin {NaN, Undefined}
    THEN (IF r.HopCount = Null THEN 0 ELSE r.HopCount)
    ELSE 0

\* metric f is a finite number on both sides and differs by at most tol
MetricClose(a, b, f, tol) ==
    /\ f \in DOMAIN a /\ a[f] \notin {NaN, Undefined}
    /\ f \in DOMAIN b /\ b[f] \notin {NaN, Undefined}
    /\ a[f] - b[f] <= tol
    /\ b[f] - a[f] <= tol

\* the status string, empty when absent
StatusText(r) == IF "Status" \in DOMAIN r THEN r.Status ELSE ""

\* two status strings equal up to letter case
SameIgnoringCase(s, u) == s = u \/ {s, u} = {"active", "Active"}

\* what the fields other than Status have to satisfy
CoreFieldsMatch(a, b) ==
    /\ FieldText(a, "DestinationID") = FieldText(b, "DestinationID")
    /\ FieldText(a, "NextHopID") = FieldText(b, "NextHopID")
    /\ "Path" \in DOMAIN a
    /\ "Path" \in DOMAIN b
    /\ a.Path = b.Path
    /\ HopCountOf(a) = HopCountOf(b)
    /\ MetricClose(a, b, "LinkQuality", 5)
    /\ MetricClose(a, b, "Latency", 100)
    /\ MetricClose(a, b, "Bandwidth", 50)

\* C26 (as stated): routingDataMatches(a, b) is true exactly when the
\* identifiers, the path, the hop count and the three metrics agree and
\* the statuses do not differ while both being non-empty.
C26_MatchStatusBothNonEmpty ==
    (call.op = "routingDataMatches") =>
        (result.out <=>
            /\ CoreFieldsMatch(call.a, call.b)
            /\ ~(/\ StatusText(call.a) # ""
                 /\ StatusText(call.b) # ""
                 /\ ~SameIgnoringCase(StatusText(call.a), StatusText(call.b))))

\* C26 (amended): routingDataMatches(a, b) is true exactly when the
\* identifiers are equal as strings, both sides have a path and the paths
\* are element-wise equal, the hop counts are equal with non-numeric
\* values read as 0, the three metrics are finite on both sides and
\* within 0.05, 1.0 and 0.5, and the statuses are equal up to letter
\* case, an absent status counting as the empty string; the timestamp is
\* not looked at.
C26_RoutingDataMatches ==
    (call.op = "routingDataMatches") =>
        (result.out <=>
            /\ CoreFieldsMatch(call.a, call.b)
            /\ SameIgnoringCase(StatusText(call.a), StatusText(call.b)))

\* RdA with a status has been compared with RdA without one: no match
C26_Witness ==
    /\ call.op = "routingDataMatches"
    /\ call.a = SetField(RdA, "Status", "active")
    /\ call.b = RdA
    /\ ~result.out

----------------------------------------------------------------------------
(* C27: when the V1 cross-validation writes the record.                    *)

PenalisingDecisions == {"penalized-mismatch", "penalized-majority0"}

\* C27 (as stated): a successful crossValidation writes the record only
\* when the wormhole score changes; a penalty on a score of 0 writes nothing.
C27_WriteOnlyOnChange ==
    (call.op = "crossValidation" /\ result.ok /\ result.puts > 0) =>
        result.out.after # result.out.before

\* C27 (amended): a successful crossValidation writes the record once
\* exactly when its decision is a penalising one (delta # 0), also when
\* the score is already 0 and stays 0; the write changes nothing but the
\* wormhole score, which becomes max(0, before + delta); any other
\* decision writes nothing.
C27_WriteOnPenalty ==
    [][(call'.op = "crossValidation" /\ result'.ok) =>
          /\ result'.out.delta # 0 <=> result'.out.decision \in PenalisingDecisions
          /\ result'.puts = (IF result'.out.delta # 0 THEN 1 ELSE 0)
          /\ result'.out.delta = 0 => state' = state
          /\ result'.out.delta # 0 =>
                /\ result'.out.after
                     = (IF result'.out.before + result'.out.delta < 0 THEN 0
                        ELSE result'.out.before + result'.out.delta)
                /\ state' = [state EXCEPT
                               ![keyForVehicle(call'.vin)].trustedScoreWromehole
                                   = result'.out.after]]_vars

\* a penalty was decided on a score of 0: the record was written, unchanged
C27_Witness ==
    /\ call.op = "crossValidation"
    /\ result.ok
    /\ result.out.decision \in PenalisingDecisions
    /\ result.out.before = 0
    /\ result.out.after = 0
    /\ result.puts = 1

----------------------------------------------------------------------------
(* Specification SpecVotes: the four vote-store functions on two vehicle   *)
(* records, with votes 1, 0, other numbers, a non-numeric value and null.  *)

MaxVoteEntries == 2

\* vote arguments: 1, 0, two other numbers, a non-numeric string, null
VoteArgs == {1, 0, 2, -1, NaN, Null}

VoteEntries(st) ==
    LET n(k) == Len(st[k].neighborArray) + Len(st[k].neighborArrayBlackholeVotes)
                + Len(st[k].neighborArrayRoutingData)
    IN  n(keyForVehicle("1")) + n(keyForVehicle("2"))

VoteBounded == VoteEntries(state') <= MaxVoteEntries

VoteInit ==
    /\ state = TwoVehicleLedger(InitialScore, InitialScore)
    /\ call = [op |-> "none"]
    /\ result = [ok |-> TRUE, error |-> "", puts |-> 0]
    /\ inserted = [v \in VinUniverse |-> <<>>]

VoteStoreNeighborVote ==
    \E vin \in CoreVins, vote \in VoteArgs :
        storeNeighborVote(Vehicle1Id, T0, vin, "n1", vote, 0, 0, NoTs)
        /\ VoteBounded

VoteStoreNeighborVoteV3 ==
    \E vin \in CoreVins, vote \in VoteArgs :
        storeNeighborVoteV3(ControllerId, T0, vin, vote, NoTs) /\ VoteBounded

VoteStoreBlackholeNeighborVote ==
    \E vin \in CoreVins, vote \in VoteArgs :
        storeNeighborVoteBlackhole(Vehicle1Id, T0, vin, "n1", vote, NoTs)
        /\ VoteBounded

VoteStorePoisonNeighborRoutingVote ==
    \E vin \in CoreVins, vote \in VoteArgs :
        storeNeighborRoutingVote(Vehicle1Id, T0, vin, "n1", vote, RdA, NoTs)
        /\ VoteBounded

VoteResetTrustScores ==
    \E vin \in CoreVins : resetTrustScores(ControllerId, T0, vin) /\ VoteBounded

VoteNext ==
    \/ VoteStoreNeighborVote
    \/ VoteStoreNeighborVoteV3
    \/ VoteStoreBlackholeNeighborVote
    \/ VoteStorePoisonNeighborRoutingVote
    \/ VoteResetTrustScores

SpecVotes == VoteInit /\ [][VoteNext]_vars

VoteStoreOps ==
    {"storeNeighborVote", "storeNeighborVoteV3", "storeBlackholeNeighborVote",
     "storePoisonNeighborRoutingVote"}

\* the log a vote-store function appends to
LogOfStore(op) ==
    CASE op \in {"storeNeighborVote", "storeNeighborVoteV3"} -> "wormhole"
      [] op = "storeBlackholeNeighborVote" -> "blackhole"
      [] op = "storePoisonNeighborRoutingVote" -> "poison"

\* every vote in the three vote logs of every vehicle record is 0 or 1
AllVotesBinary ==
    \A k \in DOMAIN state :
        k[1] = "vehicle" =>
            \A n \in {"wormhole", "blackhole", "poison"} :
                \A i \in 1..Len(LogOf(state[k], n)) :
                    LogOf(state[k], n)[i].vote \in {0, 1}

\* C28: a successful vote-store puts exactly one entry at the end of
\* exactly one log of the target record, with vote 1 when the argument is
\* numerically 1 and vote 0 otherwise, and changes no sub-score, no other
\* log and no other record; every stored vote is 0 or 1 in every state.
C28_VoteStore ==
    /\ []AllVotesBinary
    /\ [][(call'.op \in VoteStoreOps /\ result'.ok) =>
            LET k == keyForVehicle(call'.vin)
                n == LogOfStore(call'.op)
                old == LogOf(state[k], n)
                new == LogOf(state'[k], n)
            IN  /\ Len(new) = Len(old) + 1
                /\ SubSeq(new, 1, Len(old)) = old
                /\ new[Len(new)].vote = (IF call'.vote = 1 THEN 1 ELSE 0)
                /\ \A m \in LogNames \ {n} :
                       LogOf(state'[k], m) = LogOf(state[k], m)
                /\ \A f \in SubScoreFields : state'[k][f] = state[k][f]
                /\ state'[k].locations = state[k].locations
                /\ DOMAIN state' = DOMAIN state
                /\ \A j \in DOMAIN state : j # k => state'[j] = state[j]]_vars

\* a vote of 2 was stored as 0 behind an earlier entry of the same log
C28_Witness ==
    /\ call.op = "storePoisonNeighborRoutingVote"
    /\ result.ok
    /\ call.vote = 2
    /\ result.out.lastVote.vote = 0
    /\ result.out.count = 2
    /\ state[keyForVehicle(call.vin)].neighborArrayRoutingData[1].vote = 1

----------------------------------------------------------------------------
(* Specification SpecIdentity: vehicle "1" registered at T0; one day later *)
(* every function that writes a vehicle record is invoked on it, VIN "2"   *)
(* is stored and registered, and both VINs are registered again with       *)
(* another key and status.                                                 *)

MaxIdentityWeight == 4

IdentityBounded == Weight(state') <= MaxIdentityWeight

IdentityInit ==
    /\ state = RegisteredLedger
    /\ call = [op |-> "none"]
    /\ result = [ok |-> TRUE, error |-> "", puts |-> 0]
    /\ inserted = [v \in VinUniverse |-> <<>>]

IdentityStoreVIN ==
    \E vin \in CoreVins : storeVIN(TrustedAuthorityId, TDay, vin) /\ IdentityBounded

IdentityRegisterVehicle ==
    \E vin \in CoreVins, publicKey \in {"pk", "pk2"},
       registrationStatus \in {"", "revoked"} :
        registerVehicle(ControllerId, TDay, vin, publicKey, registrationStatus)
        /\ IdentityBounded

IdentityResetTrustScores ==
    \E vin \in CoreVins : resetTrustScores(ControllerId, TDay, vin) /\ IdentityBounded

IdentityStoreLocation ==
    storeLocation(Vehicle1Id, TDay, "1", 1, 2, NoTs) /\ IdentityBounded

IdentityStoreNeighborVote ==
    \E vin \in CoreVins :
        storeNeighborVote(Vehicle1Id, TDay, vin, "n1", 0, 0, 0, NoTs)
        /\ IdentityBounded

IdentityCrossValidation ==
    crossValidation(Vehicle1Id, TDay, "1", 0, 0, NoTs) /\ IdentityBounded

IdentityStoreNeighborVoteV3 ==
    storeNeighborVoteV3(ControllerId, TDay, "1", 0, OlderTs) /\ IdentityBounded

IdentityCrossValidationV3 ==
    \E tx \in {TDay, TPast} :
        crossValidationV3(ControllerId, tx, "1") /\ IdentityBounded

IdentityStoreBlackholeNeighborVote ==
    storeNeighborVoteBlackhole(Vehicle1Id, TDay, "1", "n1", 0, NoTs)
    /\ IdentityBounded

IdentityReduceBlackholeScore ==
    reduceTrustScoreBlackhole(ControllerId, TDay, "1", 100) /\ IdentityBounded

IdentityEvaluateBlackholeVotes ==
    evaluateBlackholeVotes(ControllerId, TDay, "1", 100) /\ IdentityBounded

IdentityStorePoisonNeighborRoutingVote ==
    storeNeighborRoutingVote(Vehicle1Id, TDay, "1", "n1", 0, RdA, OlderTs)
    /\ IdentityBounded

IdentityCrossValidationPoison ==
    \E tx \in {TDay, TPast} :
        crossValidationPoison(Vehicle1Id, tx, "1", RdA, NoTs) /\ IdentityBounded

IdentityStoreFlowIdReplay ==
    storeFlowIdReplay(Vehicle1Id, TDay, "1", "f1", OlderTs) /\ IdentityBounded

IdentityCheckFlowIdReplay ==
    \E tx \in {TDay, TPast} :
        checkFlowIdReplay(Vehicle1Id, tx, "1", "f1") /\ IdentityBounded

IdentityNext ==
    \/ IdentityStoreVIN
    \/ IdentityRegisterVehicle
    \/ IdentityResetTrustScores
    \/ IdentityStoreLocation
    \/ IdentityStoreNeighborVote
    \/ IdentityCrossValidation
    \/ IdentityStoreNeighborVoteV3
    \/ IdentityCrossValidationV3
    \/ IdentityStoreBlackholeNeighborVote
    \/ IdentityReduceBlackholeScore
    \/ IdentityEvaluateBlackholeVotes
    \/ IdentityStorePoisonNeighborRoutingVote
    \/ IdentityCrossValidationPoison
    \/ IdentityStoreFlowIdReplay
    \/ IdentityCheckFlowIdReplay

SpecIdentity == IdentityInit /\ [][IdentityNext]_vars

IdentityFields == {"VIN", "publicKey", "registrationStatus", "createdAt"}

\* C29: a vehicle record that exists keeps existing, and no step changes
\* its VIN, publicKey, registrationStatus or createdAt.
C29_IdentityImmutable ==
    [][\A vin \in VinUniverse :
          LET k == keyForVehicle(vin)
          IN  k \in DOMAIN state =>
                /\ k \in DOMAIN state'
                /\ \A f \in IdentityFields : state'[k][f] = state[k][f]]_vars

\* vehicle "1", created at T0 and written to since, was registered again
\* a day later with another key and status: it is as it was created
C29_Witness ==
    /\ call.op = "registerVehicle"
    /\ call.vin = "1"
    /\ call.publicKey = "pk2"
    /\ call.registrationStatus = "revoked"
    /\ ~result.ok
    /\ VehicleWeight(state[keyForVehicle("1")]) > 0
    /\ state[keyForVehicle("1")].publicKey = "pk"
    /\ state[keyForVehicle("1")].registrationStatus = "registered"
    /\ state[keyForVehicle("1")].createdAt = txNowIso(T0)

----------------------------------------------------------------------------
(* Specification SpecDeterminism: the invocations of SpecIdentity on a     *)
(* ledger kept within MaxDetWeight.                                        *)

MaxDetWeight == 3

DetBounded == Weight(state') <= MaxDetWeight

DetNext ==
    \/ IdentityStoreVIN /\ DetBounded
    \/ IdentityRegisterVehicle /\ DetBounded
    \/ IdentityResetTrustScores /\ DetBounded
    \/ IdentityStoreLocation /\ DetBounded
    \/ IdentityStoreNeighborVote /\ DetBounded
    \/ IdentityCrossValidation /\ DetBounded
    \/ IdentityStoreNeighborVoteV3 /\ DetBounded
    \/ IdentityCrossValidationV3 /\ DetBounded
    \/ IdentityStoreBlackholeNeighborVote /\ DetBounded
    \/ IdentityReduceBlackholeScore /\ DetBounded
    \/ IdentityEvaluateBlackholeVotes /\ DetBounded
    \/ IdentityStorePoisonNeighborRoutingVote /\ DetBounded
    \/ IdentityCrossValidationPoison /\ DetBounded
    \/ IdentityStoreFlowIdReplay /\ DetBounded
    \/ IdentityCheckFlowIdReplay /\ DetBounded

\* the invocations of function op among those of DetNext
InvocationsOf(op) ==
    CASE op = "storeVIN" -> IdentityStoreVIN
      [] op = "registerVehicle" -> IdentityRegisterVehicle
      [] op = "resetTrustScores" -> IdentityResetTrustScores
      [] op = "storeLocation" -> IdentityStoreLocation
      [] op = "storeNeighborVote" -> IdentityStoreNeighborVote
      [] op = "crossValidation" -> IdentityCrossValidation
      [] op = "storeNeighborVoteV3" -> IdentityStoreNeighborVoteV3
      [] op = "crossValidationV3" -> IdentityCrossValidationV3
      [] op = "storeBlackholeNeighborVote" -> IdentityStoreBlackholeNeighborVote
      [] op = "reduceBlackholeScore" -> IdentityReduceBlackholeScore
      [] op = "evaluateBlackholeVotes" -> IdentityEvaluateBlackholeVotes
      [] op = "storePoisonNeighborRoutingVote" -> IdentityStorePoisonNeighborRoutingVote
      [] op = "crossValidationPoison" -> IdentityCrossValidationPoison
      [] op = "storeFlowIdReplay" -> IdentityStoreFlowIdReplay
      [] op = "checkFlowIdReplay" -> IdentityCheckFlowIdReplay

SpecDeterminism == IdentityInit /\ [][DetNext]_vars

\* the functions that append an entry stamped with a default timestamp
StampingOps == VoteStoreOps \cup {"storeFlowIdReplay"}

StampedLog(op) == IF op = "storeFlowIdReplay" THEN "flow" ELSE LogOfStore(op)

----------------------------------------------------------------------------
(* C32: what a flow-id check keeps, writes and reports.                    *)

\* entry e is dated within the 24 hours that end at instant now
WithinDay(e, now) ==
    /\ e.timestamp # BadTs
    /\ e.timestamp >= now - 86400000
    /\ e.timestamp <= now

\* C32: a successful checkFlowIdReplay splits the log into kept and purged
\* entries: recentCount + purged is the length before, the persisted log
\* afterwards is the kept entries in their order, the record is written
\* exactly when purged > 0 and nothing but the log changes, exists tells
\* whether a kept entry has the flow id, and a second check at the same
\* transaction time purges nothing and gives the same exists.
C32_CheckPartitions ==
    [][(call'.op = "checkFlowIdReplay" /\ result'.ok) =>
          LET k == keyForVehicle(call'.vin)
              log == FlowLog(state[k])
              kept == SelectSeq(log, LAMBDA e : WithinDay(e, txNowIso(call'.tx)))
              out == result'.out
          IN  /\ out.recentCount + out.purged = Len(log)
              /\ out.recentCount = Len(kept)
              /\ FlowLog(state'[k]) = kept
              /\ result'.puts = (IF out.purged > 0 THEN 1 ELSE 0)
              /\ out.purged = 0 => state' = state
              /\ out.purged > 0 =>
                    state' = [state EXCEPT ![k] = SetField(@, "flowIdReplay", kept)]
              /\ out.exists <=> \E i \in 1..Len(kept) : kept[i].flowId = call'.flowId
              /\ (/\ call.op = "checkFlowIdReplay"
                  /\ result.ok
                  /\ call.vin = call'.vin
                  /\ call.tx = call'.tx) =>
                    /\ out.purged = 0
                    /\ call.flowId = call'.flowId => out.exists = result.out.exists]_vars

\* a check has purged one of two entries and reported the kept one
C32_Witness ==
    /\ call.op = "checkFlowIdReplay"
    /\ result.ok
    /\ result.out.purged = 1
    /\ result.out.recentCount = 1
    /\ result.out.exists
    /\ result.puts = 1
    /\ Len(FlowLog(state[keyForVehicle(call.vin)])) = 1

----------------------------------------------------------------------------
(* C33: the two sub-scores no function lowers.                             *)

\* C33: the Sybil and the replay sub-score of every vehicle record are 100
\* in every state.
C33_SybilReplayConstant ==
    \A k \in DOMAIN state :
        k[1] = "vehicle" =>
            /\ state[k].trustedScoreSybil = 100
            /\ state[k].trustScoreReplay = 100

\* a check has found the flow id in the log, and the replay sub-score of
\* the sender is still 100
C33_Witness ==
    /\ call.op = "checkFlowIdReplay"
    /\ result.ok
    /\ result.out.exists
    /\ state[keyForVehicle(call.vin)].trustScoreReplay = 100
    /\ state[keyForVehicle(call.vin)].trustedScoreSybil = 100

----------------------------------------------------------------------------
(* C34: sub-scores between resets.                                         *)

C34_Inv ==
    \A k \in DOMAIN state :
        k[1] = "vehicle" =>
            \A f \in SubScoreFields : state[k][f] \in 0..100

C34_Step ==
    call'.op # "resetTrustScores" =>
        \A k \in DOMAIN state :
            k[1] = "vehicle" =>
                \A f \in SubScoreFields : state'[k][f] <= state[k][f]

\* C34: no step other than a resetTrustScores raises a sub-score, also
\* not a blackhole reduction or evaluation with a negative amount, and
\* every sub-score is within 0..100 in every state.
C34_ScoresOnlyDecrease == []C34_Inv /\ [][C34_Step]_vars

\* a blackhole evaluation with a negative amount has penalised a zeros
\* majority: the score is what it was
C34_Witness ==
    /\ call.op = "evaluateBlackholeVotes"
    /\ call.reduceBy = -5
    /\ result.ok
    /\ result.out.decision = "penalized-majority0"
    /\ state[keyForVehicle(call.vin)].trustScoreBlackhole = result.out.before

----------------------------------------------------------------------------
(* C35: the persisted overallTrustScore field.                             *)

\* C35 (as stated): a record that carries a persisted overallTrustScore
\* has it equal to the rounded mean of its five sub-scores.
C35_PersistedOverallCurrent ==
    \A k \in DOMAIN state :
        (k[1] = "vehicle" /\ "overallTrustScore" \in DOMAIN state[k]) =>
            state[k].overallTrustScore = RoundedMean(state[k])

\* the successful calls that assign the persisted field
WritesOverall(c, r) ==
    /\ r.ok
    /\ \/ c.op \in {"reduceBlackholeScore", "crossValidationV3"}
       \/ c.op = "evaluateBlackholeVotes" /\ r.out.decision = "penalized-majority0"
       \/ c.op = "crossValidationPoison" /\ r.out.delta # 0

\* C35 (amended): the persisted overallTrustScore equals the rounded mean
\* of the five sub-scores right after reduceBlackholeScore, a penalising
\* evaluateBlackholeVotes, a penalising crossValidationPoison and
\* crossValidationV3; every other step, V1 crossValidation and
\* resetTrustScores included, leaves the field as it was (absent or with
\* its old value), also when it changes a sub-score.
C35_OverallWrittenByFour ==
    [][\A k \in DOMAIN state :
          k[1] = "vehicle" =>
             IF k = keyForVehicle(call'.vin) /\ WritesOverall(call', result')
             THEN /\ "overallTrustScore" \in DOMAIN state'[k]
                  /\ state'[k].overallTrustScore = RoundedMean(state'[k])
             ELSE GetField(state'[k], "overallTrustScore")
                     = GetField(state[k], "overallTrustScore")]_vars

\* resetTrustScores has put the sub-scores back to 100 and the persisted
\* overall score is still the lower one written before
C35_Witness ==
    /\ call.op = "resetTrustScores"
    /\ result.ok
    /\ "overallTrustScore" \in DOMAIN state[keyForVehicle(call.vin)]
    /\ state[keyForVehicle(call.vin)].overallTrustScore < 100
    /\ RoundedMean(state[keyForVehicle(call.vin)]) = 100

----------------------------------------------------------------------------
(* Specification SpecRepeat: evaluations repeated over a log that is not   *)
(* changed in between.  Vehicle "1" starts fresh or with wormhole and      *)
(* blackhole scores lowered to 1; wormhole votes of both generations and   *)
(* blackhole votes are stored at T0 and evaluated at T0 (votes in the      *)
(* window) or a day later (votes outside it).                              *)

MaxRepeatVotes == 2

MaxRepeatDrop == 4

\* how far a score that started at 100 has dropped
RepeatDrop(score) == IF score >= 50 THEN 100 - score ELSE 0

RepeatBounded ==
    LET v == state'[keyForVehicle("1")]
    IN  /\ Len(v.neighborArray) + Len(v.neighborArrayBlackholeVotes)
              <= MaxRepeatVotes
        /\ RepeatDrop(v.trustedScoreWromehole) + RepeatDrop(v.trustScoreBlackhole)
              <= MaxRepeatDrop

\* the record after penalties have brought both scores down to s
LoweredVehicle(s) ==
    LET v == [NewVehicle("1", "pk", "", T0) EXCEPT
                  !.trustedScoreWromehole = s, !.trustScoreBlackhole = s]
    IN  IF s = InitialScore THEN v
        ELSE SetField(v, "overallTrustScore", computeOverallTrust(v))

RepeatInit ==
    /\ \E s \in {1, InitialScore} :
          state = putState(RegisteredLedger, keyForVehicle("1"), LoweredVehicle(s))
    /\ call = [op |-> "none"]
    /\ result = [ok |-> TRUE, error |-> "", puts |-> 0]
    /\ inserted = [v \in VinUniverse |-> <<>>]

RepeatStoreNeighborVote ==
    \E vote \in {0, 1} :
        storeNeighborVote(Vehicle1Id, T0, "1", "n1", vote, 0, 0, NoTs)
        /\ RepeatBounded

RepeatStoreNeighborVoteV3 ==
    storeNeighborVoteV3(ControllerId, T0, "1", 0, NoTs) /\ RepeatBounded

RepeatStoreBlackholeNeighborVote ==
    \E vote \in {0, 1} :
        storeNeighborVoteBlackhole(Vehicle1Id, T0, "1", "n1", vote, NoTs)
        /\ RepeatBounded

RepeatCrossValidation ==
    \E tx \in {T0, TDay}, longitudeV \in {0, 6} :
        crossValidation(Vehicle1Id, tx, "1", longitudeV, 0, NoTs) /\ RepeatBounded

RepeatEvaluateBlackholeVotes ==
    \E tx \in {T0, TDay}, reduceBy \in {Undefined, 2, -5} :
        evaluateBlackholeVotes(ControllerId, tx, "1", reduceBy) /\ RepeatBounded

RepeatReduceBlackholeScore ==
    reduceTrustScoreBlackhole(ControllerId, T0, "1", Undefined) /\ RepeatBounded

RepeatCrossValidationV3 ==
    \E tx \in {T0, TPast} :
        crossValidationV3(ControllerId, tx, "1") /\ RepeatBounded

RepeatCrossValidationPoison ==
    crossValidationPoison(Vehicle1Id, TPast, "1", RdA, NoTs) /\ RepeatBounded

RepeatCheckFlowIdReplay ==
    checkFlowIdReplay(Vehicle1Id, TPast, "1", "f1") /\ RepeatBounded

RepeatResetTrustScores ==
    resetTrustScores(ControllerId, T0, "1") /\ RepeatBounded

RepeatNext ==
    \/ RepeatStoreNeighborVote
    \/ RepeatStoreNeighborVoteV3
    \/ RepeatStoreBlackholeNeighborVote
    \/ RepeatCrossValidation
    \/ RepeatEvaluateBlackholeVotes
    \/ RepeatReduceBlackholeScore
    \/ RepeatCrossValidationV3
    \/ RepeatCrossValidationPoison
    \/ RepeatCheckFlowIdReplay
    \/ RepeatResetTrustScores

SpecRepeat == RepeatInit /\ [][RepeatNext]_vars

\* the amount dec an evaluation takes off for argument reduceBy
DecOf(reduceBy) ==
    IF reduceBy = Undefined \/ reduceBy = 0 THEN 1
    ELSE IF reduceBy < 0 THEN 0 ELSE reduceBy

FloorAtZero(n) == IF n < 0 THEN 0 ELSE n

\* call c is a blackhole evaluation on record v with more 0-votes than
\* 1-votes in its window
BlackholeZerosMajority(v, c) ==
    /\ c.op = "evaluateBlackholeVotes"
    /\ CountVotes(BlackholeVotesInWindow(v, c), 0)
          > CountVotes(BlackholeVotesInWindow(v, c), 1)

\* C36: a successful evaluateBlackholeVotes or V1 crossValidation leaves
\* both vote logs as they are; an evaluation over a zeros majority in its
\* window takes dec (resp. 2) off the score, floored at 0, each time it is
\* called, so that two in a row over the same log leave
\* max(0, before - 2 dec) (resp. max(0, before - 4)); and no step other
\* than resetTrustScores shortens the blackhole log.
C36_VotesNotConsumed ==
    [][LET k == keyForVehicle("1")
           v == state[k]
           w == state'[k]
       IN  /\ (call'.op \in {"evaluateBlackholeVotes", "crossValidation"}
                /\ result'.ok) =>
                 /\ w.neighborArray = v.neighborArray
                 /\ w.neighborArrayBlackholeVotes = v.neighborArrayBlackholeVotes
           /\ (result'.ok /\ BlackholeZerosMajority(v, call')) =>
                 /\ w.trustScoreBlackhole
                      = FloorAtZero(v.trustScoreBlackhole - DecOf(call'.reduceBy))
                 /\ (result.ok /\ call = call' /\ BlackholeZerosMajority(v, call)) =>
                       w.trustScoreBlackhole
                         = FloorAtZero(result.out.before - 2 * DecOf(call'.reduceBy))
           /\ V1MajorityZero(v, call', result') =>
                 /\ w.trustedScoreWromehole = FloorAtZero(v.trustedScoreWromehole - 2)
                 /\ (result.ok /\ call = call' /\ V1MajorityZero(v, call, result)) =>
                       w.trustedScoreWromehole = FloorAtZero(result.out.before - 4)
           /\ call'.op # "resetTrustScores" =>
                 Extends(v.neighborArrayBlackholeVotes, w.neighborArrayBlackholeVotes)]_vars

\* the second of two blackhole evaluations in a row over the same vote
\* has taken the penalty off again
C36_Witness ==
    /\ call.op = "evaluateBlackholeVotes"
    /\ result.ok
    /\ result.out.decision = "penalized-majority0"
    /\ result.out.before = 98
    /\ result.out.after = 96
    /\ Len(state[keyForVehicle("1")].neighborArrayBlackholeVotes) = 1

\* a successful V1 cross-validation with a majority of 1-votes in its window
\* whose first 1-vote was written by storeNeighborVoteV3 (it has no location)
V1FirstOneFromV3(v, c, r) ==
    /\ c.op = "crossValidation"
    /\ r.ok
    /\ OnesMajority(v, c)
    /\ "location" \notin DOMAIN FirstOne(v, c)

\* every in-window 1-vote that carries a location is near the reported one
LocatedOnesMatch(v, c) ==
    LET w == VotesInWindow(v, c)
    IN  \A i \in 1..Len(w) :
            (w[i].vote = 1 /\ "location" \in DOMAIN w[i]) =>
                /\ Near(w[i].location.longitude, c.longitudeV)
                /\ Near(w[i].location.latitude, c.latitudeV)

\* C37: V3 entries count in V1 cross-validation; when the first in-window
\* 1-vote of a ones majority is a V3 entry the call returns
\* `penalized-mismatch` and the wormhole score becomes max(0, before - 1),
\* whatever location is reported and whatever the V1 votes say.
C37_V3EntryMismatches ==
    [][LET k == keyForVehicle("1")
           v == state[k]
       IN  V1FirstOneFromV3(v, call', result') =>
             /\ result'.out.decision = "penalized-mismatch"
             /\ result'.out.delta = -1
             /\ state'[k].trustedScoreWromehole
                  = FloorAtZero(v.trustedScoreWromehole - 1)]_vars

\* a penalised report at a location that the only located vote confirms
C37_Witness ==
    LET v == state[keyForVehicle("1")]
    IN  /\ call.op = "crossValidation"
        /\ result.ok
        /\ call.timestampV = NoTs
        /\ result.out.decision = "penalized-mismatch"
        /\ Len(v.neighborArray) = 2
        /\ "location" \notin DOMAIN v.neighborArray[1]
        /\ "location" \in DOMAIN v.neighborArray[2]
        /\ v.neighborArray[2].vote = 1
        /\ LocatedOnesMatch(v, call)
        /\ v.trustedScoreWromehole = 99

----------------------------------------------------------------------------
(* Specification SpecEmpty: routing data that lacks a path or a metric.    *)
(* routingDataMatches is applied to every pair of complete objects, the    *)
(* empty object and objects with a missing path or a missing or            *)
(* non-numeric metric;                                                     *)
(* poison votes are stored for vehicle "1" with a complete, an empty and   *)
(* an undecodable payload and cross-validated against each of them.        *)

MaxEmptyWeight == 2

EmptyInputs ==
    {RdA, RdC, EmptyObject,
     DropField(RdA, "Path"),
     [RdA EXCEPT !.LinkQuality = NaN],
     DropField(RdA, "LinkQuality"),
     [RdA EXCEPT !.Latency = NaN],
     DropField(RdA, "Latency"),
     [RdA EXCEPT !.Bandwidth = NaN],
     DropField(RdA, "Bandwidth")}

EmptyBounded == PoisonWeight(state'[keyForVehicle("1")]) <= MaxEmptyWeight

EmptyInit ==
    /\ \E p \in {0, InitialScore} :
          state = putState(RegisteredLedger, keyForVehicle("1"),
                           SeededVehicle(InitialScore, p))
    /\ call = [op |-> "none"]
    /\ result = [ok |-> TRUE, error |-> "", puts |-> 0]
    /\ inserted = [v \in VinUniverse |-> <<>>]

EmptyMatchApply ==
    \E a \in EmptyInputs, b \in EmptyInputs :
        /\ call' = [op |-> "routingDataMatches", a |-> a, b |-> b]
        /\ result' = [ok |-> TRUE, error |-> "", puts |-> 0,
                      out |-> routingDataMatches(a, b)]
        /\ UNCHANGED <<state, inserted>>

EmptyStoreNeighborRoutingVote ==
    \E vote \in {0, 1}, routingData \in {RdA, EmptyObject, BadJson} :
        storeNeighborRoutingVote(Vehicle1Id, T0, "1", "n1", vote, routingData, NoTs)
        /\ EmptyBounded

EmptyCrossValidation ==
    \E routingDataV \in {RdA, EmptyObject, BadJson} :
        crossValidationPoison(Vehicle1Id, T0, "1", routingDataV, NoTs)
        /\ EmptyBounded

EmptyNext ==
    \/ EmptyMatchApply
    \/ EmptyStoreNeighborRoutingVote
    \/ EmptyCrossValidation

SpecEmpty == EmptyInit /\ [][EmptyNext]_vars

\* field f of r is absent or not a finite number
NotFinite(r, f) == f \notin DOMAIN r \/ r[f] \in {NaN, Undefined, Null}

\* r has no path or lacks a finite link quality, latency or bandwidth
Incomplete(r) ==
    \/ "Path" \notin DOMAIN r
    \/ NotFinite(r, "LinkQuality")
    \/ NotFinite(r, "Latency")
    \/ NotFinite(r, "Bandwidth")

\* a successful poison cross-validation with a majority of 1-votes in its
\* window whose first 1-vote holds the empty structure
PoisonSampleEmpty(v, c, r) ==
    LET w == PoisonVotesInWindow(v, c)
    IN  /\ c.op = "crossValidationPoison"
        /\ r.ok
        /\ CountVotes(w, 1) > CountVotes(w, 0)
        /\ \E i \in 1..Len(w) :
              /\ w[i].vote = 1
              /\ \A j \in 1..(i - 1) : w[j].vote # 1
              /\ w[i].routingData = EmptyObject

\* C38: routingDataMatches(a, b) = routingDataMatches(b, a); it is false
\* whenever a or b lacks a path or a finite link quality, latency or
\* bandwidth, also for a = b; and a poison cross-validation whose sampled
\* 1-vote holds the empty structure returns `penalized-mismatch` with the
\* score at max(0, before - 1) for every routingDataV.
C38_MatchNotReflexive ==
    [][LET k == keyForVehicle("1")
           v == state[k]
       IN  /\ call'.op = "routingDataMatches" =>
                 /\ result'.out = routingDataMatches(call'.b, call'.a)
                 /\ (Incomplete(call'.a) \/ Incomplete(call'.b)) => ~result'.out
           /\ PoisonSampleEmpty(v, call', result') =>
                 /\ result'.out.decision = "penalized-mismatch"
                 /\ result'.out.delta = -1
                 /\ state'[k].trustScorePoison
                      = FloorAtZero(v.trustScorePoison - 1)]_vars

\* a vote stored from an undecodable payload is cross-validated against the
\* empty structure and the vehicle is penalised
C38_Witness ==
    LET v == state[keyForVehicle("1")]
    IN  /\ call.op = "crossValidationPoison"
        /\ call.routingDataV = EmptyObject
        /\ result.ok
        /\ result.out.decision = "penalized-mismatch"
        /\ Len(v.neighborArrayRoutingData) = 1
        /\ v.neighborArrayRoutingData[1].routingData = EmptyObject
        /\ v.trustScorePoison = 99

----------------------------------------------------------------------------
(* C39: flow-id entries dated after the check.                             *)

\* entry e is dated after instant now, or its timestamp does not parse
FutureOrUnparsable(e, now) == e.timestamp = BadTs \/ e.timestamp > now

\* the log holds an entry for flow id f
HasFlow(log, f) == \E i \in 1..Len(log) : log[i].flowId = f

----------------------------------------------------------------------------
(* Specification SpecCutoff: poison cross-validation at a reference time   *)
(* chosen by the caller.  Votes for vehicle "1" are stored at T0, dated by *)
(* the transaction or just outside the 10-minute window; the owner or a    *)
(* controller cross-validates at T0 with no timestampV, with one 24 hours  *)
(* after T0 and with one a millisecond later.                              *)

MaxCutoffWeight == 3

\* timestampV arguments: exactly 24 hours after T0, and 1 ms later
DayAfterTs == txNowIso(TDay)

FarTs == txNowIso(TPast)

CutoffVotes == {<<1, RdA, NoTs>>, <<0, RdA, NoTs>>, <<1, RdA, OldTs>>, <<0, RdA, BadTs>>}

CutoffBounded == PoisonWeight(state'[keyForVehicle("1")]) <= MaxCutoffWeight

CutoffInit ==
    /\ \E p \in {1, InitialScore} :
          state = putState(RegisteredLedger, keyForVehicle("1"),
                           SeededVehicle(InitialScore, p))
    /\ call = [op |-> "none"]
    /\ result = [ok |-> TRUE, error |-> "", puts |-> 0]
    /\ inserted = [v \in VinUniverse |-> <<>>]

CutoffStoreNeighborRoutingVote ==
    \E a \in CutoffVotes :
        storeNeighborRoutingVote(Vehicle1Id, T0, "1", "n1", a[1], a[2], a[3])
        /\ CutoffBounded

CutoffCrossValidation ==
    \E id \in {Vehicle1Id, ControllerId}, routingDataV \in {RdA, RdB},
       timestampV \in {NoTs, DayAfterTs, FarTs} :
        crossValidationPoison(id, T0, "1", routingDataV, timestampV)
        /\ CutoffBounded

CutoffNext ==
    \/ CutoffStoreNeighborRoutingVote
    \/ CutoffCrossValidation

SpecCutoff == CutoffInit /\ [][CutoffNext]_vars

\* entry e is dated no earlier than 24 hours before instant ref
DatedSince(e, ref) == e.timestamp # BadTs /\ e.timestamp >= ref - 86400000

\* C40: a successful crossValidationPoison keeps the entries dated no
\* earlier than 24 hours before its reference time, which is timestampV
\* when one is passed and the transaction time otherwise, and counts the
\* votes of the 10 minutes up to that time; with a timestampV more than 24
\* hours after every stored vote the whole log is deleted in one write, the
\* decision is `no-votes` and the score and every other field are as before.
C40_CallerChosenCutoff ==
    [][(call'.op = "crossValidationPoison" /\ result'.ok) =>
          LET k == keyForVehicle("1")
              v == state[k]
              log == v.neighborArrayRoutingData
              ref == ReferenceTime(call')
          IN  /\ state'[k].neighborArrayRoutingData
                   = SelectSeq(log, LAMBDA e : DatedSince(e, ref))
              /\ (result'.out.decision = "no-votes")
                   <=> (Len(PoisonVotesInWindow(v, call')) = 0)
              /\ (/\ call'.timestampV # NoTs
                  /\ Len(log) > 0
                  /\ \A i \in 1..Len(log) : ~DatedSince(log[i], call'.timestampV)) =>
                    /\ state' = [state EXCEPT ![k].neighborArrayRoutingData = <<>>]
                    /\ result'.puts = 1
                    /\ result'.out.decision = "no-votes"
                    /\ result'.out.delta = 0
                    /\ result'.out.after = v.trustScorePoison]_vars

\* the votes stored at T0 have been deleted in one write by a
\* cross-validation at T0 whose timestampV lies 24 hours and 1 ms later
C40_Witness ==
    /\ call.op = "crossValidationPoison"
    /\ call.tx = T0
    /\ call.timestampV = FarTs
    /\ result.ok
    /\ result.puts = 1
    /\ result.out.decision = "no-votes"
    /\ state[keyForVehicle("1")].neighborArrayRoutingData = <<>>
    /\ state[keyForVehicle("1")].trustScorePoison = InitialScore

=============================================================================
